---- MODULE Spec2Model ----
(***************************************************************************)
(* A model of cbz_convertor: the filename parser, the image sorter and the *)
(* archive repackager of core.py, and the regroup operation of modes.py.   *)
(*                                                                         *)
(* A file name or an archive entry name is a sequence of one-character     *)
(* strings, so that suffix, stem, integer parsing, zero padding, regular   *)
(* expression matching and lexical comparison are computed on the          *)
(* characters as the Python code computes them.                            *)
(***************************************************************************)
EXTENDS Integers, Sequences, FiniteSets, TLC

(***************************************************************************)
(* Characters and strings (Python str)                                     *)
(***************************************************************************)

DigitChars == <<"0", "1", "2", "3", "4", "5", "6", "7", "8", "9">>

UpperChars ==
  <<"A", "B", "C", "D", "E", "F", "G", "H", "I", "J", "K", "L", "M",
    "N", "O", "P", "Q", "R", "S", "T", "U", "V", "W", "X", "Y", "Z">>

LowerChars ==
  <<"a", "b", "c", "d", "e", "f", "g", "h", "i", "j", "k", "l", "m",
    "n", "o", "p", "q", "r", "s", "t", "u", "v", "w", "x", "y", "z">>

\* The characters of the model in code point order: ' ' (32), '-' (45),
\* '.' (46), '/' (47), the digits, the upper case and the lower case letters.
CharOrder == <<" ", "-", ".", "/">> \o DigitChars \o UpperChars \o LowerChars

MinOf(S) == CHOOSE x \in S : \A y \in S : x <= y

MaxOf(S) == CHOOSE x \in S : \A y \in S : y <= x

IsDigit(c) == \E i \in 1..Len(DigitChars) : DigitChars[i] = c

DigitVal(c) == (CHOOSE i \in 1..Len(DigitChars) : DigitChars[i] = c) - 1

\* str.lower() on one character
LowerChar(c) ==
  IF \E i \in 1..Len(UpperChars) : UpperChars[i] = c
  THEN LowerChars[CHOOSE i \in 1..Len(UpperChars) : UpperChars[i] = c]
  ELSE c

\* str.lower()
StrLower(s) == [i \in 1..Len(s) |-> LowerChar(s[i])]

\* ord(c)
Ord(c) == CHOOSE i \in 1..Len(CharOrder) : CharOrder[i] = c

\* s < t decided at the places d where the two strings differ
StrLessAt(s, t, d) ==
  IF d = {} THEN Len(s) < Len(t) ELSE Ord(s[MinOf(d)]) < Ord(t[MinOf(d)])

\* Python's s < t on two strings: the first differing character decides, a
\* proper prefix is smaller.
StrLess(s, t) ==
  StrLessAt(s, t, {i \in 1..Len(s) : i <= Len(t) /\ s[i] # t[i]})

\* s cut to the span of the places nb of its non-blank characters
StripTo(s, nb) == IF nb = {} THEN <<>> ELSE SubSeq(s, MinOf(nb), MaxOf(nb))

\* str.strip(), for the blank of the model
Strip(s) == StripTo(s, {i \in 1..Len(s) : s[i] # " "})

AllDigits(s) == \A i \in 1..Len(s) : IsDigit(s[i])

\* the number a run of digits writes
DigitsValue(s) ==
  LET value[i \in 0..Len(s)] ==
        IF i = 0 THEN 0 ELSE 10 * value[i - 1] + DigitVal(s[i])
  IN value[Len(s)]

\* the digits d of an int() argument, after its sign
ParseDigits(d, sign) ==
  IF d # <<>> /\ AllDigits(d)
  THEN [ok |-> TRUE, val |-> sign * DigitsValue(d)]
  ELSE [ok |-> FALSE, val |-> 0]

\* an int() argument t, stripped
ParseStripped(t) ==
  IF t # <<>> /\ t[1] = "-" THEN ParseDigits(Tail(t), -1) ELSE ParseDigits(t, 1)

\* int(s) on a string: surrounding blanks are stripped, one leading '-' is a
\* sign, what remains must be a non-empty run of digits; anything else raises
\* ValueError (ok is FALSE).  The model's alphabet has no '+' and no '_'.
ParseInt(s) == ParseStripped(Strip(s))

\* str(n) for n >= 0
RECURSIVE NatStr(_)
NatStr(n) ==
  IF n < 10 THEN <<DigitChars[n + 1]>>
  ELSE NatStr(n \div 10) \o <<DigitChars[(n % 10) + 1]>>

\* the digits ds filled with zeros on the left to width characters
ZeroFill(ds, width) == [i \in 1..(width - Len(ds)) |-> "0"] \o ds

\* str(n): a negative number is written with its sign
IntStr(n) == IF n < 0 THEN <<"-">> \o NatStr(-n) ELSE NatStr(n)

\* f"{n:0{width}d}": at least width characters, the sign of a negative number
\* counted among them and written before the zeros
ZeroPad(n, width) ==
  IF n < 0 THEN <<"-">> \o ZeroFill(NatStr(-n), width - 1) ELSE ZeroFill(NatStr(n), width)

(***************************************************************************)
(* pathlib: Path(name).name, .suffix, .stem                                *)
(***************************************************************************)

\* the greatest element of a set of indices, 0 for the empty set
LastOf(I) == IF I = {} THEN 0 ELSE MaxOf(I)

\* the index of the last occurrence of c in s, 0 when there is none
LastIndexOf(s, c) == LastOf({i \in 1..Len(s) : s[i] = c})

\* Path(name).name: the final path component
BaseName(name) == SubSeq(name, LastIndexOf(name, "/") + 1, Len(name))

\* the suffix of the component b whose last dot is at i: none when the dot is
\* the first or the last character, or when there is no dot
SuffixAt(b, i) == IF 1 < i /\ i < Len(b) THEN SubSeq(b, i, Len(b)) ELSE <<>>

StemAt(b, i) == IF 1 < i /\ i < Len(b) THEN SubSeq(b, 1, i - 1) ELSE b

SuffixOfBase(b) == SuffixAt(b, LastIndexOf(b, "."))

StemOfBase(b) == StemAt(b, LastIndexOf(b, "."))

\* Path(name).suffix
Suffix(name) == SuffixOfBase(BaseName(name))

\* Path(name).stem
Stem(name) == StemOfBase(BaseName(name))

(***************************************************************************)
(* Exceptions: a raised exception is a record of its class and its message *)
(***************************************************************************)

NoExc == [type |-> "none", msg |-> ""]

Raise(type, msg) == [type |-> type, msg |-> msg]

(***************************************************************************)
(* core.py: extract_chapter_number                                         *)
(*                                                                         *)
(* A pattern is the sequence of the elements that come before the group    *)
(* (\d+); every pattern ends with (\d+)\.cbz$.  An element matches one     *)
(* character of a set, and may be optional (the '?' of the source).        *)
(***************************************************************************)

Lit(c) == [chars |-> {c}, opt |-> FALSE]

Opt(c) == [chars |-> {c}, opt |-> TRUE]

OneOf(S) == [chars |-> S, opt |-> FALSE]

\* the list in a changed order: the broad fallback is tried first
patterns_fallback_first ==
  << <<OneOf({"-", " "})>>,
     <<Lit(" "), Lit("-"), Lit(" ")>>,
     <<Lit("c"), Lit("h"), Lit("a"), Lit("p"), Lit("i"), Lit("t"), Lit("r"),
       Lit("e"), Lit(" ")>>,
     <<Lit("c"), Lit("h"), Lit("a"), Lit("p"), Lit("t"), Lit("e"), Lit("r"),
       Lit(" ")>>,
     <<Lit("c"), Lit("h"), Opt("."), Opt(" ")>> >>

patterns ==
  << <<Lit(" "), Lit("-"), Lit(" ")>>,                        \* r" - (\d+)\.cbz$"
     <<Lit("c"), Lit("h"), Lit("a"), Lit("p"), Lit("i"), Lit("t"), Lit("r"),
       Lit("e"), Lit(" ")>>,                                  \* r"chapitre (\d+)\.cbz$"
     <<Lit("c"), Lit("h"), Lit("a"), Lit("p"), Lit("t"), Lit("e"), Lit("r"),
       Lit(" ")>>,                                            \* r"chapter (\d+)\.cbz$"
     <<Lit("c"), Lit("h"), Opt("."), Opt(" ")>>,              \* r"ch\.? ?(\d+)\.cbz$"
     <<OneOf({"-", " "})>> >>                                 \* r"[- ](\d+)\.cbz$"

CbzSuffix == <<".", "c", "b", "z">>

NoMatch == [ok |-> FALSE, group |-> <<>>]

\* re.IGNORECASE: a character matches an element whatever its case
CharMatches(c, el) == LowerChar(c) \in el.chars

\* The positions at which the elements e.. of pat can end when matched from
\* pos, in the order the regular expression engine tries them: an optional
\* element is greedy, it is consumed first and skipped on backtracking.
RECURSIVE PrefixEnds(_, _, _, _)
PrefixEnds(pat, e, name, pos) ==
  IF e > Len(pat) THEN <<pos>>
  ELSE (IF pos <= Len(name) /\ CharMatches(name[pos], pat[e])
        THEN PrefixEnds(pat, e + 1, name, pos + 1) ELSE <<>>)
       \o (IF pat[e].opt THEN PrefixEnds(pat, e + 1, name, pos) ELSE <<>>)

\* the end of the longest run of digits that starts at pos (pos - 1: no digit)
DigitRunEnd(name, pos) ==
  MaxOf({q \in (pos - 1)..Len(name) : \A i \in pos..q : IsDigit(name[i])})

\* the group from pos to q, if .cbz and the end of the string follow it
GroupTo(name, pos, q) ==
  IF /\ q >= pos
     /\ q + Len(CbzSuffix) = Len(name)
     /\ StrLower(SubSeq(name, q + 1, Len(name))) = CbzSuffix
  THEN [ok |-> TRUE, group |-> SubSeq(name, pos, q)]
  ELSE NoMatch

\* (\d+)\.cbz$ from pos: \d+ takes the whole run of digits (the character
\* after the group must be the dot), then .cbz in any case, then the end of
\* the string.
GroupAt(name, pos) == GroupTo(name, pos, DigitRunEnd(name, pos))

\* the group at the first of the prefix ends after which the rest matches
FirstGroup(name, ends, good) ==
  IF good = {} THEN NoMatch ELSE GroupAt(name, ends[MinOf(good)])

GroupAfter(name, ends) ==
  FirstGroup(name, ends, {i \in 1..Len(ends) : GroupAt(name, ends[i]).ok})

\* the match of pat anchored at start, if any
MatchAt(pat, name, start) == GroupAfter(name, PrefixEnds(pat, 1, name, start))

LeftmostMatch(pat, name, starts) ==
  IF starts = {} THEN NoMatch ELSE MatchAt(pat, name, MinOf(starts))

\* re.search(pattern, filename, re.IGNORECASE): the leftmost match
Search(pat, name) ==
  LeftmostMatch(pat, name, {s \in 1..(Len(name) + 1) : MatchAt(pat, name, s).ok})

ChapterError == Raise("ChapterExtractionError", "Cannot extract chapter number")

\* lines 41-42: int(match.group(1)) when the pattern matched
MatchValue(m) ==
  IF m.ok THEN [matched |-> TRUE, val |-> DigitsValue(m.group)]
  ELSE [matched |-> FALSE, val |-> 0]

\* one turn of the loop over the patterns, at pattern i
TryPattern(filename, i) == MatchValue(Search(patterns[i], filename))

\* the loop over the patterns, hits being the patterns that match: the value
\* of the first of them, ChapterExtractionError when there is none
FirstHit(filename, hits) ==
  IF hits = {} THEN [exc |-> ChapterError, val |-> 0, pattern |-> 0]
  ELSE [exc |-> NoExc, val |-> TryPattern(filename, MinOf(hits)).val,
        pattern |-> MinOf(hits)]

extract_chapter_number(filename) ==
  FirstHit(filename, {i \in 1..Len(patterns) : TryPattern(filename, i).matched})

(***************************************************************************)
(* core.py: sorted_images                                                  *)
(***************************************************************************)

IMAGE_EXTENSIONS ==
  { <<".", "j", "p", "g">>, <<".", "j", "p", "e", "g">>, <<".", "p", "n", "g">> }

\* Path(name).suffix.lower() in IMAGE_EXTENSIONS
IsImageName(name) == StrLower(Suffix(name)) \in IMAGE_EXTENSIONS

\* the key of x, p being the outcome of int(Path(x).stem)
KeyOf(p, x) ==
  IF p.ok THEN [flag |-> 0, num |-> p.val, str |-> <<>>]
  ELSE [flag |-> 1, num |-> 0, str |-> x]

\* a key that never looks at the number: every name sorts as a string
sort_key_lexical(x) == [flag |-> 1, num |-> 0, str |-> x]

\* (0, int(stem)) when the stem parses as an integer, (1, x) otherwise
sort_key(x) == KeyOf(ParseInt(Stem(x)), x)

\* Python's a < b on two keys (tuples compare component by component)
KeyLess(a, b) ==
  \/ a.flag < b.flag
  \/ a.flag = b.flag /\ a.flag = 0 /\ a.num < b.num
  \/ a.flag = b.flag /\ a.flag = 1 /\ StrLess(a.str, b.str)

\* the place element i takes in a stable sort: behind the elements of smaller
\* key, and behind the earlier elements of equal key
Rank(keys, i) ==
  1 + Cardinality({j \in 1..Len(keys) :
                     \/ KeyLess(keys[j], keys[i])
                     \/ j < i /\ ~KeyLess(keys[i], keys[j])})

SortedWith(images, keys) ==
  [r \in 1..Len(images) |-> images[CHOOSE i \in 1..Len(images) : Rank(keys, i) = r]]

\* sorted(images, key=sort_key): sorted() is stable
SortedByKey(images) ==
  SortedWith(images, [i \in 1..Len(images) |-> sort_key(images[i])])

NoImagesInCbz == Raise("CBZProcessingError", "No image files found in CBZ")

\* lines 73-82, images being the entries kept by the filter
SortedOrRaise(images) ==
  IF images = <<>> THEN [exc |-> NoImagesInCbz, val |-> <<>>]
  ELSE [exc |-> NoExc, val |-> SortedByKey(images)]

\* sorted_images(zip_file), on the archive's namelist()
sorted_images(namelist) == SortedOrRaise(SelectSeq(namelist, IsImageName))

(***************************************************************************)
(* core.py: process_cbz_images                                             *)
(*                                                                         *)
(* A source path is a record: kind "zip" (a readable archive with its      *)
(* namelist), "missing" (exists() is false), "dir" (exists, is_file() is   *)
(* false), "corrupt" (ZipFile raises BadZipFile) or "unreadable" (ZipFile  *)
(* raises OSError).  A cover path is NoCover or a record with its name and *)
(* whether the file exists.  File contents are not copied: the content of  *)
(* a file is the place it comes from, [src |-> index of the source        *)
(* archive, name |-> entry name], src 0 for the cover.                     *)
(***************************************************************************)

NoCover == [given |-> FALSE, exists |-> FALSE, name |-> <<>>]

ZipSource(names) == [kind |-> "zip", names |-> names]

BadSource(kind) == [kind |-> kind, names |-> <<>>]

CoverContent(cover) == [src |-> 0, name |-> cover.name]

\* what ZipFile.write stores for a directory: an entry without data
DirContent == [src |-> -1, name |-> <<>>]

\* the outer handler forgotten: every exception leaves as it was raised
HandleOuterNone(e) == e

\* lines 176-179: a CBZProcessingError is raised again, any other exception
\* leaves as a CBZProcessingError
HandleOuter(e) ==
  IF e.type = "CBZProcessingError" THEN e
  ELSE Raise("CBZProcessingError", "Unexpected error during CBZ processing")

\* lines 98-107: the first source that is missing or not a file, then the cover
ValidateInputs(files, cover) ==
  LET bad == {i \in 1..Len(files) : files[i].kind \in {"missing", "dir"}}
      first == CHOOSE i \in bad : \A j \in bad : i <= j
  IN IF bad # {}
     THEN IF files[first].kind = "missing"
          THEN Raise("CBZProcessingError", "Input CBZ file not found")
          ELSE Raise("CBZProcessingError", "Input path is not a file")
     ELSE IF cover.given /\ ~cover.exists
          THEN Raise("CBZProcessingError", "Cover image not found")
          ELSE NoExc

\* zipfile.ZipFile(cbz, "r") followed by sorted_images(z), with the handler of
\* BadZipFile that surrounds both
OpenAndSort(source) ==
  CASE source.kind = "corrupt" ->
         [exc |-> Raise("CBZProcessingError", "Invalid or corrupted CBZ file"),
          val |-> <<>>]
    [] source.kind = "zip" -> sorted_images(source.names)
    [] OTHER -> [exc |-> Raise("OSError", "cannot open"), val |-> <<>>]

\* lines 110-116 on the outcomes rs of opening and sorting each source: the
\* loop stops at the first one that raised; otherwise total is the number of
\* images of all of them
CountOutcomes(rs) ==
  LET bad == {i \in 1..Len(rs) : rs[i].exc # NoExc}
      sum[i \in 0..Len(rs)] == IF i = 0 THEN 0 ELSE sum[i - 1] + Len(rs[i].val)
  IN IF bad # {} THEN [exc |-> rs[MinOf(bad)].exc, total |-> 0]
     ELSE [exc |-> NoExc, total |-> sum[Len(rs)]]

CountFrom(files) == CountOutcomes([i \in 1..Len(files) |-> OpenAndSort(files[i])])

\* lines 118-122, c being the outcome of the loop
CountWithCover(c, cover) ==
  IF c.exc # NoExc THEN [exc |-> c.exc, total |-> 0]
  ELSE IF c.total + (IF cover.given THEN 1 ELSE 0) = 0
       THEN [exc |-> Raise("CBZProcessingError", "No images found in any CBZ files"),
             total |-> 0]
       ELSE [exc |-> NoExc, total |-> c.total + (IF cover.given THEN 1 ELSE 0)]

\* lines 110-122: total_images, or the exception that ends the count
CountImages(files, cover) == CountWithCover(CountFrom(files), cover)

\* a padding of three digits whatever the total
PaddingFixed(total) == 3

\* line 125: padding = max(3, len(str(total_images)))
Padding(total) == IF Len(NatStr(total)) > 3 THEN Len(NatStr(total)) ELSE 3

\* lines 136-137 and 149-150: f"{index:0{padding}d}{ext}", ext lower-cased
NumberedName(index, pad, original) ==
  ZeroPad(index, pad) \o StrLower(Suffix(original))

\* line 128, tempfile.TemporaryDirectory: mkdtemp makes the directory under a
\* name that no existing directory has
TmpNames == {"tmpA", "tmpB"}

NoTmpName == ""

\* the working directory of another call, there while this call runs
OtherCallDirs == {"tmpA"}

FreshNames(existing) == TmpNames \ existing

NotReleased(dirs, name) == dirs

\* line 128, TemporaryDirectory.cleanup: the directory of that name is removed
Released(dirs, name) == dirs \ {name}

\* the working directory: its files (path and content) and its directories
EmptyTmp == [exists |-> FALSE, files |-> {}, dirs |-> {}]

\* the directories a path lies in
ParentDirs(path) == {SubSeq(path, 1, i - 1) : i \in {j \in 1..Len(path) : path[j] = "/"}}

\* a file written at path: what was there is replaced
PutFile(files, path, content) ==
  {f \in files : f.path # path} \cup {[path |-> path, content |-> content]}

\* line 138: shutil.copy2(cover_path, cover_dest)
CopyCover(tmp, cover, pad) ==
  [tmp EXCEPT !.files = PutFile(@, NumberedName(0, pad, cover.name), CoverContent(cover))]

\* line 152: rename moves the extracted file onto tmp/new_name, replacing a
\* file of that path
Renamed(files, img_name, new_name, content) ==
  PutFile({f \in files : f.path # img_name}, new_name, content)

\* lines 151-152: z.extract(img_name, tmp_path) writes tmp/img_name, creating
\* its directories and replacing a file of that path; rename moves it onto
\* tmp/new_name.  A directory in the place of either file makes the call raise.
ExtractAndRename(tmp, src, img_name, new_name) ==
  IF img_name \in tmp.dirs \/ new_name \in tmp.dirs \/ new_name \in ParentDirs(img_name)
  THEN [exc |-> Raise("OSError", "is a directory"), tmp |-> tmp]
  ELSE [exc |-> NoExc,
        tmp |-> [tmp EXCEPT
                   !.dirs = @ \cup ParentDirs(img_name),
                   !.files = Renamed(PutFile(@, img_name, [src |-> src, name |-> img_name]),
                                     img_name, new_name,
                                     [src |-> src, name |-> img_name])]]

\* tmp_path.glob("*"): what lies directly in the working directory, a
\* directory under its name followed by "/" as ZipFile.write names it
TopLevel(tmp) ==
  {[name |-> f.path, content |-> f.content] : f \in {g \in tmp.files : ParentDirs(g.path) = {}}}
  \cup {[name |-> d \o <<"/">>, content |-> DirContent] : d \in {e \in tmp.dirs : ParentDirs(e) = {}}}

\* the path of an entry of the output: a directory without its "/"
EntryPath(e) ==
  IF e.content = DirContent THEN SubSeq(e.name, 1, Len(e.name) - 1) ELSE e.name

\* sorted(...) of a set of entries by path
SortedEntries(S) ==
  [r \in 1..Cardinality(S) |->
     CHOOSE e \in S : Cardinality({o \in S : StrLess(EntryPath(o), EntryPath(e))}) = r - 1]

\* lines 164-171: the entries written to the output archive
ImagesToWrite(tmp) == SortedEntries(TopLevel(tmp))

(***************************************************************************)
(* The inputs of the model                                                 *)
(***************************************************************************)

\* the most source archives of one call, and the most entries they hold together
MaxSources == 2

MaxEntries == 3

E_001_jpg == <<"0", "0", "1", ".", "j", "p", "g">>

E_000_jpg == <<"0", "0", "0", ".", "j", "p", "g">>

E_b_JPG == <<"b", ".", "J", "P", "G">>

E_x_txt == <<"x", ".", "t", "x", "t">>

E_d_a_jpg == <<"d", "/", "a", ".", "j", "p", "g">>

EntryNames == {E_001_jpg, E_000_jpg, E_b_JPG, E_x_txt, E_d_a_jpg}

\* the namelists of at most n entries over the names N, no name twice
Namelists(N, n) ==
  UNION {{s \in [1..k -> N] : \A i, j \in 1..k : i # j => s[i] # s[j]} : k \in 0..n}

SourceKinds == {"missing", "dir", "corrupt", "unreadable"}

\* the sources that hold at most n entries
SourcesUpTo(n) ==
  {ZipSource(s) : s \in Namelists(EntryNames, n)} \cup {BadSource(k) : k \in SourceKinds}

\* the lists of exactly k sources that hold at most n entries together
RECURSIVE SourceLists(_, _)
SourceLists(k, n) ==
  IF k = 0 THEN {<<>>}
  ELSE UNION {{<<s>> \o l : l \in SourceLists(k - 1, n - Len(s.names))} : s \in SourcesUpTo(n)}

C_cover_JPG == <<"c", "o", "v", "e", "r", ".", "J", "P", "G">>

CoverPaths ==
  {NoCover,
   [given |-> TRUE, exists |-> FALSE, name |-> C_cover_JPG],
   [given |-> TRUE, exists |-> TRUE, name |-> C_cover_JPG]}

\* the output path before the call: no file, or a file written earlier
AbsentFile == [state |-> "absent", entries |-> <<>>]

OldFile == [state |-> "old", entries |-> <<>>]

(***************************************************************************)
(* The state of one call of process_cbz_images                             *)
(***************************************************************************)

VARIABLES
  cbz_files,      \* the argument: the sequence of source paths
  cover_path,     \* the argument: the cover path, or NoCover
  outFile,        \* the file at output_cbz
  pc,             \* the place the call has reached
  total_images,
  padding,
  page_counter,
  srcIdx,         \* the loop over cbz_files: the index of cbz
  imgIdx,         \* the loop over sorted_images(z): the index of img_name
  tmp,            \* the working directory
  tmp_name,       \* the name mkdtemp gave it, NoTmpName when there is none
  tmp_dirs,       \* the names of the working directories that exist
  exc,            \* the exception the call ends with, NoExc when none
  new_name,       \* the name given last
  prev_name       \* the name given before it

\* one call of sorted_images: the namelist of the archive and what is returned
VARIABLES namelist, images

\* one call of extract_chapter_number: the argument, the loop over the
\* patterns and what is returned
VARIABLES filename, patIdx, chapter_num

\* one call of regroup_cbz
VARIABLES
  args,                \* the command line that asked for it
  input_path,          \* the argument: whether it is a file, and its listing
  infos,               \* the argument: the configuration read from JSON
  globbed,             \* the cbz_files of regroup_cbz: input_path.glob("*.cbz")
  fileIdx,             \* the loop over them
  chapters,            \* dict: chapter number -> archive name
  failed_extractions,
  error_msg,           \* the lines of the message of the error of line 97
  tomes,               \* dict, in insertion order: tome number -> (start, end)
  tomeIdx,             \* the loops over infos["tomes"] and over tomes
  covers,              \* dict: tome number -> cover path
  tome_padding,
  calls,               \* the calls of process_cbz_images, with their arguments
  warnings,            \* the warnings printed on stderr
  out_dir              \* the files of output_path: name -> file

repackVars ==
  <<cbz_files, cover_path, outFile, total_images, padding, page_counter,
    srcIdx, imgIdx, tmp, tmp_name, tmp_dirs, new_name, prev_name>>

sortVars == <<namelist, images>>

chapterVars == <<filename, patIdx, chapter_num>>

regroupVars ==
  <<args, input_path, infos, globbed, fileIdx, chapters, failed_extractions,
    error_msg, tomes, tomeIdx, covers, tome_padding, calls, warnings, out_dir>>

vars == <<pc, exc, repackVars, sortVars, chapterVars, regroupVars>>

SortIdle == namelist = <<>> /\ images = <<>>

ChapterIdle == filename = <<>> /\ patIdx = 0 /\ chapter_num = 0

\* input_path and infos of a state in which regroup_cbz is not called
NoInput == [is_file |-> FALSE, listing |-> <<>>]

\* args of a state in which the command line plays no part
NoArgs == [series |-> <<>>, infos_file |-> "none", input_exists |-> FALSE]

NoInfos == [has_tomes |-> FALSE, tomes_kind |-> "dict", tomes |-> <<>>]

RegroupLocals ==
  /\ globbed = <<>>
  /\ fileIdx = 0
  /\ chapters = <<>>
  /\ failed_extractions = <<>>
  /\ error_msg = <<>>
  /\ tomes = <<>>
  /\ tomeIdx = 0
  /\ covers = <<>>
  /\ tome_padding = 0
  /\ calls = <<>>
  /\ warnings = <<>>
  /\ out_dir = <<>>

RegroupIdle == args = NoArgs /\ input_path = NoInput /\ infos = NoInfos /\ RegroupLocals

RepackIdle ==
  /\ cbz_files = <<>>
  /\ cover_path = NoCover
  /\ outFile = AbsentFile
  /\ total_images = 0
  /\ padding = 0
  /\ page_counter = 0
  /\ srcIdx = 0
  /\ imgIdx = 0
  /\ tmp = EmptyTmp
  /\ tmp_name = NoTmpName
  /\ tmp_dirs = {}
  /\ new_name = <<>>
  /\ prev_name = <<>>

InitLocals ==
  /\ total_images = 0
  /\ padding = 0
  /\ page_counter = 0
  /\ srcIdx = 0
  /\ imgIdx = 0
  /\ tmp = EmptyTmp
  /\ tmp_name = NoTmpName
  /\ exc = NoExc
  /\ new_name = <<>>
  /\ prev_name = <<>>

Init ==
  /\ cbz_files \in UNION {SourceLists(k, MaxEntries) : k \in 0..MaxSources}
  /\ cover_path \in CoverPaths
  /\ outFile \in {AbsentFile, OldFile}
  /\ pc = "validate"
  /\ InitLocals
  /\ tmp_dirs = OtherCallDirs
  /\ SortIdle
  /\ ChapterIdle
  /\ RegroupIdle

\* line 128, TemporaryDirectory.__exit__: the with block is left, by its end
\* or by an exception, and the working directory, if there is one, is removed
LeaveWith ==
  /\ tmp' = EmptyTmp
  /\ tmp_name' = NoTmpName
  /\ tmp_dirs' = Released(tmp_dirs, tmp_name)

\* the call ends with exception e
Fail(e) ==
  /\ pc' = "failed"
  /\ exc' = HandleOuter(e)
  /\ LeaveWith

\* lines 98-107, e being the outcome of the checks
ValidateDo(e) ==
  IF e = NoExc THEN pc' = "count" /\ UNCHANGED <<exc, tmp, tmp_name, tmp_dirs>> ELSE Fail(e)

Validate ==
  /\ pc = "validate"
  /\ UNCHANGED <<sortVars, chapterVars, regroupVars>>
  /\ ValidateDo(ValidateInputs(cbz_files, cover_path))
  /\ UNCHANGED <<cbz_files, cover_path, outFile, total_images, padding,
                 page_counter, srcIdx, imgIdx, new_name, prev_name>>

\* lines 109-125, c being the outcome of the count
CountDo(c) ==
  IF c.exc = NoExc
  THEN /\ pc' = "cover"
       /\ total_images' = c.total
       /\ padding' = Padding(c.total)
       /\ UNCHANGED <<exc, tmp, tmp_name, tmp_dirs>>
  ELSE Fail(c.exc) /\ UNCHANGED <<total_images, padding>>

Count ==
  /\ pc = "count"
  /\ UNCHANGED <<sortVars, chapterVars, regroupVars>>
  /\ CountDo(CountImages(cbz_files, cover_path))
  /\ UNCHANGED <<cbz_files, cover_path, outFile, page_counter, srcIdx, imgIdx,
                 new_name, prev_name>>

\* lines 128-139: the working directory is made, the cover is copied into it
Cover ==
  /\ pc = "cover"
  /\ UNCHANGED <<sortVars, chapterVars, regroupVars>>
  /\ page_counter' = 1
  /\ srcIdx' = 1
  /\ imgIdx' = 1
  /\ pc' = IF Len(cbz_files) = 0 THEN "write" ELSE "extract"
  /\ \E name \in FreshNames(tmp_dirs) :
       /\ tmp_name' = name
       /\ tmp_dirs' = tmp_dirs \cup {name}
  /\ IF cover_path.given /\ cover_path.exists
     THEN /\ tmp' = CopyCover([EmptyTmp EXCEPT !.exists = TRUE], cover_path, padding)
          /\ new_name' = NumberedName(0, padding, cover_path.name)
          /\ prev_name' = new_name
     ELSE /\ tmp' = [EmptyTmp EXCEPT !.exists = TRUE]
          /\ UNCHANGED <<new_name, prev_name>>
  /\ UNCHANGED <<cbz_files, cover_path, outFile, total_images, padding, exc>>

\* lines 138-141: the copy raises IOError
CoverFails ==
  /\ pc = "cover"
  /\ UNCHANGED <<sortVars, chapterVars, regroupVars>>
  /\ cover_path.given /\ cover_path.exists
  /\ Fail(Raise("CBZProcessingError", "Failed to copy cover image"))
  /\ UNCHANGED <<cbz_files, cover_path, outFile, total_images, padding,
                 page_counter, srcIdx, imgIdx, new_name, prev_name>>

\* lines 152-158, r being the outcome of extract and rename under name
ExtractDone(r, name, last) ==
  IF r.exc # NoExc
  THEN /\ Fail(Raise("CBZProcessingError", "Failed to extract image"))
       /\ UNCHANGED <<page_counter, srcIdx, imgIdx, new_name, prev_name>>
  ELSE /\ tmp' = r.tmp
       /\ UNCHANGED <<tmp_name, tmp_dirs>>
       /\ page_counter' = page_counter + 1
       /\ new_name' = name
       /\ prev_name' = new_name
       /\ srcIdx' = IF last THEN srcIdx + 1 ELSE srcIdx
       /\ imgIdx' = IF last THEN 1 ELSE imgIdx + 1
       /\ pc' = IF last /\ srcIdx = Len(cbz_files) THEN "write" ELSE "extract"
       /\ UNCHANGED exc

\* lines 149-152, on img_name under its new name
ExtractAs(img_name, name, last) ==
  ExtractDone(ExtractAndRename(tmp, srcIdx, img_name, name), name, last)

\* lines 146-147, imgs being the outcome of opening and sorting the source
ExtractFrom(imgs) ==
  IF imgs.exc # NoExc
  THEN /\ Fail(imgs.exc)
       /\ UNCHANGED <<page_counter, srcIdx, imgIdx, new_name, prev_name>>
  ELSE ExtractAs(imgs.val[imgIdx],
                 NumberedName(page_counter, padding, imgs.val[imgIdx]),
                 imgIdx = Len(imgs.val))

\* lines 144-160: one turn of the inner loop, on image imgIdx of source srcIdx
ExtractOne ==
  /\ pc = "extract"
  /\ UNCHANGED <<sortVars, chapterVars, regroupVars>>
  /\ ExtractFrom(OpenAndSort(cbz_files[srcIdx]))
  /\ UNCHANGED <<cbz_files, cover_path, outFile, total_images, padding>>

\* lines 148-158: extract or rename raises (a damaged entry, a full disk)
ExtractFails ==
  /\ pc = "extract"
  /\ UNCHANGED <<sortVars, chapterVars, regroupVars>>
  /\ Fail(Raise("CBZProcessingError", "Failed to extract image"))
  /\ UNCHANGED <<cbz_files, cover_path, outFile, total_images, padding,
                 page_counter, srcIdx, imgIdx, new_name, prev_name>>

\* lines 164-172, entries being the sorted content of the working directory
WriteDo(entries) ==
  IF entries = <<>>
  THEN /\ Fail(Raise("CBZProcessingError", "No images to write to output CBZ"))
       /\ UNCHANGED outFile
  ELSE /\ outFile' = [state |-> "written", entries |-> entries]
       /\ pc' = "done"
       /\ LeaveWith
       /\ UNCHANGED exc

\* lines 162-172: the working directory is listed and written to output_cbz
Write ==
  /\ pc = "write"
  /\ UNCHANGED <<sortVars, chapterVars, regroupVars>>
  /\ WriteDo(ImagesToWrite(tmp))
  /\ UNCHANGED <<cbz_files, cover_path, total_images, padding, page_counter,
                 srcIdx, imgIdx, new_name, prev_name>>

\* lines 168-174: creating or writing the output raises IOError; the file may
\* have been created and left incomplete
WriteFails ==
  /\ pc = "write"
  /\ UNCHANGED <<sortVars, chapterVars, regroupVars>>
  /\ tmp.files # {}
  /\ outFile' \in {outFile, [state |-> "partial", entries |-> <<>>]}
  /\ Fail(Raise("CBZProcessingError", "Failed to write output CBZ file"))
  /\ UNCHANGED <<cbz_files, cover_path, total_images, padding, page_counter,
                 srcIdx, imgIdx, new_name, prev_name>>

Next ==
  \/ Validate
  \/ Count
  \/ Cover
  \/ CoverFails
  \/ ExtractOne
  \/ ExtractFails
  \/ Write
  \/ WriteFails

Spec == Init /\ [][Next]_vars

(***************************************************************************)
(* What the contract of repackage expects of one call                      *)
(***************************************************************************)

\* M: the image entries of all the source archives
SourceImageCount ==
  LET sum[i \in 0..Len(cbz_files)] ==
        IF i = 0 THEN 0
        ELSE sum[i - 1] + Len(SelectSeq(cbz_files[i].names, IsImageName))
  IN sum[Len(cbz_files)]

\* totalImageCount: M, plus one for a cover
TotalImageCount == SourceImageCount + (IF cover_path.given THEN 1 ELSE 0)

\* the number of decimal digits of n >= 1
DigitCount(n) == CHOOSE k \in 1..9 : 10 ^ (k - 1) <= n /\ n < 10 ^ k

\* PaddingWidth for a total of n images
PaddingWidth(n) == IF DigitCount(n) > 3 THEN DigitCount(n) ELSE 3

\* the extraction order: the sources in input order, the images of each in
\* sortedImages order
ExtractionOrder ==
  LET upTo[i \in 0..Len(cbz_files)] ==
        IF i = 0 THEN <<>>
        ELSE upTo[i - 1] \o
             [k \in 1..Len(sorted_images(cbz_files[i].names).val) |->
                [src |-> i, name |-> sorted_images(cbz_files[i].names).val[k]]]
  IN upTo[Len(cbz_files)]

\* the output entry of index k for the file of content c: the index padded to
\* PaddingWidth, the extension of the original name lower-cased
ExpectedEntry(k, c) ==
  [name |-> ZeroPad(k, PaddingWidth(TotalImageCount)) \o StrLower(Suffix(c.name)),
   content |-> c]

\* C1: without a cover, a successful repackage writes exactly M entries, named
\* 1..M in extraction order, whatever the names of the source entries.
C1_PagesNumberedInExtractionOrder ==
  (pc = "done" /\ ~cover_path.given) =>
    outFile.entries =
      [k \in 1..Len(ExtractionOrder) |-> ExpectedEntry(k, ExtractionOrder[k])]

\* C2: with a cover, the cover stays in the working directory under index 0
\* from its copy to the write step, and a successful repackage writes M + 1
\* entries of which the first is the cover.
C2_CoverIsFirstEntry ==
  cover_path.given =>
    /\ pc \in {"extract", "write"} =>
         [path |-> ExpectedEntry(0, CoverContent(cover_path)).name,
          content |-> CoverContent(cover_path)] \in tmp.files
    /\ pc = "done" =>
         /\ Len(outFile.entries) = SourceImageCount + 1
         /\ outFile.entries[1] = ExpectedEntry(0, CoverContent(cover_path))

\* C4: every step before the write step leaves the file at outputPath as it
\* is, and a call that fails there fails with ProcessingError: no output file
\* is created, a file already present is unchanged.
C4_FailureBeforeWriteKeepsOutput ==
  [][pc # "write" =>
       /\ outFile' = outFile
       /\ pc' = "failed" => exc'.type = "CBZProcessingError"]_vars

\* a call that failed on the zero-image case (an empty archive, no cover) with
\* a file already present at outputPath
C4_Witness ==
  /\ pc = "failed"
  /\ outFile = OldFile
  /\ ~cover_path.given
  /\ Len(cbz_files) = 1
  /\ cbz_files[1] = ZipSource(<<>>)
  /\ exc = NoImagesInCbz

NoImagesMessages == {"No image files found in CBZ", "No images found in any CBZ files"}

\* C5: among the calls whose sources are readable archives and whose cover,
\* if given, exists, a call fails for lack of images exactly when
\* totalImageCount is 0.
C5_NoImagesExactlyWhenTotalZero ==
  ( /\ pc \in {"done", "failed"}
    /\ \A i \in 1..Len(cbz_files) : cbz_files[i].kind = "zip"
    /\ cover_path.given => cover_path.exists )
  => ((exc.msg \in NoImagesMessages) <=> (TotalImageCount = 0))

(***************************************************************************)
(* The naming of one call alone: padding is computed from total_images,    *)
(* then the cover and the pages 1..M are named.  total_images is drawn     *)
(* from totals on both sides of the powers of ten.                         *)
(***************************************************************************)

PadTotals == {1, 9, 10, 99, 100, 999, 1000, 1001}

P_1_png == <<"1", ".", "p", "n", "g">>

\* original names of the pages: their numbers play no part, their
\* extensions are kept
PadPageNames == {E_b_JPG, P_1_png}

InitPad ==
  /\ total_images \in PadTotals
  /\ cover_path \in {NoCover, [given |-> TRUE, exists |-> TRUE, name |-> C_cover_JPG]}
  /\ pc = "pad"
  /\ cbz_files = <<>>
  /\ outFile = AbsentFile
  /\ padding = 0
  /\ page_counter = 0
  /\ srcIdx = 0
  /\ imgIdx = 0
  /\ tmp = EmptyTmp
  /\ tmp_name = NoTmpName
  /\ tmp_dirs = {}
  /\ exc = NoExc
  /\ new_name = <<>>
  /\ prev_name = <<>>
  /\ SortIdle
  /\ ChapterIdle
  /\ RegroupIdle

\* lines 125 and 131
PadCompute ==
  /\ pc = "pad"
  /\ padding' = Padding(total_images)
  /\ page_counter' = 1
  /\ pc' = IF cover_path.given THEN "pad_cover" ELSE "pad_page"
  /\ UNCHANGED <<cbz_files, cover_path, outFile, total_images, srcIdx, imgIdx,
                 tmp, tmp_name, tmp_dirs, exc, new_name, prev_name, sortVars,
                 chapterVars, regroupVars>>

\* lines 136-137
PadCover ==
  /\ pc = "pad_cover"
  /\ new_name' = NumberedName(0, padding, cover_path.name)
  /\ prev_name' = new_name
  /\ pc' = "pad_page"
  /\ UNCHANGED <<cbz_files, cover_path, outFile, total_images, padding,
                 page_counter, srcIdx, imgIdx, tmp, tmp_name, tmp_dirs, exc, sortVars, chapterVars,
                 regroupVars>>

\* lines 149-153
PadPage ==
  /\ pc = "pad_page"
  /\ page_counter <= total_images - (IF cover_path.given THEN 1 ELSE 0)
  /\ \E img_name \in PadPageNames :
       new_name' = NumberedName(page_counter, padding, img_name)
  /\ prev_name' = new_name
  /\ page_counter' = page_counter + 1
  /\ UNCHANGED <<cbz_files, cover_path, outFile, total_images, padding, pc,
                 srcIdx, imgIdx, tmp, tmp_name, tmp_dirs, exc, sortVars, chapterVars, regroupVars>>

NextPad == PadCompute \/ PadCover \/ PadPage

SpecPad == InitPad /\ [][NextPad]_vars

MaxNames == 3

N_10_png == <<"1", "0", ".", "p", "n", "g">>

N_2_jpg == <<"2", ".", "j", "p", "g">>

N_02_JPEG == <<"0", "2", ".", "J", "P", "E", "G">>

N_m1_jpg == <<"-", "1", ".", "j", "p", "g">>

N_cover_png == <<"c", "o", "v", "e", "r", ".", "p", "n", "g">>

N_B_PNG == <<"B", ".", "P", "N", "G">>

N_jpg == <<".", "j", "p", "g">>

SortNames ==
  {N_10_png, N_2_jpg, N_02_JPEG, N_m1_jpg, N_cover_png, N_B_PNG, N_jpg,
   E_d_a_jpg, E_x_txt}

InitSort ==
  /\ namelist \in Namelists(SortNames, MaxNames)
  /\ images = <<>>
  /\ pc = "sort"
  /\ exc = NoExc
  /\ RepackIdle
  /\ ChapterIdle
  /\ RegroupIdle

\* lines 63-82, r being what the call returns or raises
SortReturn(r) ==
  /\ exc' = r.exc
  /\ images' = r.val
  /\ pc' = IF r.exc = NoExc THEN "sorted" ELSE "sort_failed"

SortImages ==
  /\ pc = "sort"
  /\ SortReturn(sorted_images(namelist))
  /\ UNCHANGED <<namelist, repackVars, chapterVars, regroupVars>>

NextSort == SortImages

SpecSort == InitSort /\ [][NextSort]_vars

\* the number of times x occurs in s
Occurrences(s, x) == Cardinality({i \in 1..Len(s) : s[i] = x})

\* the extension of the entry, lower-cased, is .jpg, .jpeg or .png
HasImageExtension(x) ==
  \E e \in {<<"j", "p", "g">>, <<"j", "p", "e", "g">>, <<"p", "n", "g">>} :
    /\ Len(BaseName(x)) > Len(e) + 1
    /\ StrLower(SubSeq(x, Len(x) - Len(e), Len(x))) = <<".">> \o e

\* the base name of the entry, without its extension, parses as an integer
IntegerNamed(x) == ParseInt(Stem(x)).ok

\* x may stand before y in the order of sortedImages
InSortOrder(x, y) ==
  \/ IntegerNamed(x) /\ ~IntegerNamed(y)
  \/ IntegerNamed(x) /\ IntegerNamed(y) /\ ParseInt(Stem(x)).val <= ParseInt(Stem(y)).val
  \/ ~IntegerNamed(x) /\ ~IntegerNamed(y) /\ (x = y \/ StrLess(x, y))

\* C6: sortedImages returns exactly the entries with extension .jpg, .jpeg or
\* .png, each once, the integer-named ones first in ascending integer order,
\* then the others in ascending lexical order of their full name; it fails
\* with ProcessingError when no entry has such an extension.
C6_SortedImagesFilterAndOrder ==
  /\ pc = "sort_failed" =>
       /\ exc.type = "CBZProcessingError"
       /\ \A i \in 1..Len(namelist) : ~HasImageExtension(namelist[i])
  /\ pc = "sorted" =>
       /\ \E i \in 1..Len(namelist) : HasImageExtension(namelist[i])
       /\ \A x \in SortNames :
            Occurrences(images, x) =
              IF HasImageExtension(x) THEN Occurrences(namelist, x) ELSE 0
       /\ \A i, j \in 1..Len(images) : i < j => InSortOrder(images[i], images[j])

\* cover.png, 10.png and 2.jpg come back as 2.jpg, 10.png, cover.png
C6_Witness ==
  /\ pc = "sorted"
  /\ namelist = <<N_cover_png, N_10_png, N_2_jpg>>
  /\ images = <<N_2_jpg, N_10_png, N_cover_png>>

(***************************************************************************)
(* extract_chapter_number alone: one call, one turn of the loop over the   *)
(* patterns at a time                                                      *)
(***************************************************************************)

NameStarts == { <<>>, <<"S">>, <<"S", "1">> }

NameMiddles ==
  { <<" ", "-", " ">>, <<" ", "-">>, <<"-">>, <<" ">>, <<>>, <<".">>,
    <<" ", "c", "h", "a", "p", "i", "t", "r", "e", " ">>,
    <<" ", "C", "h", "a", "p", "t", "e", "r", " ">>,
    <<"c", "h", "a", "p", "t", "e", "r">>,
    <<"c", "h">>, <<" ", "c", "h", ".">>, <<" ", "C", "H", " ">>,
    <<"c", "h", ".", " ">>, <<"c", "h", ".", " ", " ">>, <<"c", "h", " ", ".">> }

NameNumbers == { <<"7">>, <<"0", "1", "9">>, <<>>, <<"1", "x">> }

NameEnds ==
  { <<".", "c", "b", "z">>, <<".", "C", "B", "Z">>, <<".", "c", "b", "r">>,
    <<".", "c", "b", "z", ".", "b", "a", "k">>, <<"c", "b", "z">> }

ChapterFileNames ==
  {a \o m \o n \o e : a \in NameStarts, m \in NameMiddles, n \in NameNumbers, e \in NameEnds}

InitChapter ==
  /\ filename \in ChapterFileNames
  /\ patIdx = 1
  /\ chapter_num = 0
  /\ pc = "patterns"
  /\ exc = NoExc
  /\ RepackIdle
  /\ SortIdle
  /\ RegroupIdle

\* lines 39-42, m being the outcome of the search with pattern patIdx
PatternTried(m) ==
  IF m.matched
  THEN chapter_num' = m.val /\ pc' = "chapter_found" /\ UNCHANGED patIdx
  ELSE patIdx' = patIdx + 1 /\ UNCHANGED <<chapter_num, pc>>

\* lines 39-42: one turn of the loop
ChapterTryPattern ==
  /\ pc = "patterns"
  /\ patIdx <= Len(patterns)
  /\ PatternTried(TryPattern(filename, patIdx))
  /\ UNCHANGED <<filename, exc, repackVars, sortVars, regroupVars>>

\* lines 44-47: no pattern matched
ChapterRaise ==
  /\ pc = "patterns"
  /\ patIdx > Len(patterns)
  /\ exc' = ChapterError
  /\ pc' = "chapter_failed"
  /\ UNCHANGED <<filename, patIdx, chapter_num, repackVars, sortVars, regroupVars>>

NextChapter == ChapterTryPattern \/ ChapterRaise

SpecChapter == InitChapter /\ [][NextChapter]_vars

\* s ends with t, whatever the case of the letters
EndsWithNoCase(s, t) ==
  Len(s) >= Len(t) /\ StrLower(SubSeq(s, Len(s) - Len(t) + 1, Len(s))) = t

\* what stands before the ending .cbz of the name
BeforeCbz(name) == SubSeq(name, 1, Len(name) - 4)

\* the length of the run of digits s ends with
TrailingDigits(s) ==
  MaxOf({k \in 0..Len(s) : \A i \in (Len(s) - k + 1)..Len(s) : IsDigit(s[i])})

\* N: the digits that stand before .cbz
NumberPart(name) ==
  SubSeq(BeforeCbz(name), Len(BeforeCbz(name)) - TrailingDigits(BeforeCbz(name)) + 1,
         Len(BeforeCbz(name)))

\* what stands before N
BeforeNumber(name) ==
  SubSeq(BeforeCbz(name), 1, Len(BeforeCbz(name)) - TrailingDigits(BeforeCbz(name)))

\* the texts that may stand before N, for each of the five patterns in order
PatternLeads ==
  << { <<" ", "-", " ">> },
     { <<"c", "h", "a", "p", "i", "t", "r", "e", " ">> },
     { <<"c", "h", "a", "p", "t", "e", "r", " ">> },
     { <<"c", "h">>, <<"c", "h", ".">>, <<"c", "h", " ">>, <<"c", "h", ".", " ">> },
     { <<"-">>, <<" ">> } >>

\* the name has the form '<lead>N.cbz' of pattern i at its end
NameMatches(name, i) ==
  /\ EndsWithNoCase(name, CbzSuffix)
  /\ NumberPart(name) # <<>>
  /\ \E lead \in PatternLeads[i] : EndsWithNoCase(BeforeNumber(name), lead)

\* C7: the five patterns are tried in their order; the call returns the
\* number N of the first pattern that matches the end of the name, whatever
\* the case, and fails with ChapterExtractionError, returning no number, when
\* no pattern matches.
C7_FirstMatchingPatternWins ==
  /\ pc = "patterns" => \A i \in 1..(patIdx - 1) : ~NameMatches(filename, i)
  /\ pc = "chapter_found" =>
       /\ NameMatches(filename, patIdx)
       /\ \A i \in 1..(patIdx - 1) : ~NameMatches(filename, i)
       /\ chapter_num = DigitsValue(NumberPart(filename))
       /\ exc = NoExc
  /\ pc = "chapter_failed" =>
       /\ \A i \in 1..Len(PatternLeads) : ~NameMatches(filename, i)
       /\ exc.type = "ChapterExtractionError"
       /\ chapter_num = 0

\* 'S - 019.CBZ' matches the first and the last pattern: the first is taken
C7_Witness ==
  /\ pc = "chapter_found"
  /\ filename = <<"S", " ", "-", " ", "0", "1", "9", ".", "C", "B", "Z">>
  /\ patIdx = 1
  /\ chapter_num = 19

(***************************************************************************)
(* core.py: process_cbz_images as the callers of modes.py see it, from its *)
(* arguments to what it raises and what it writes at output_cbz            *)
(***************************************************************************)

\* the images of source i, as the inner loop of lines 146-147 meets them
ItemsOf(i, imgs) == [k \in 1..Len(imgs) |-> [src |-> i, name |-> imgs[k]]]

\* lines 144-147: the images of all the sources in the order of the two loops
ExtractionItems(files) ==
  LET upTo[i \in 0..Len(files)] ==
        IF i = 0 THEN <<>> ELSE upTo[i - 1] \o ItemsOf(i, OpenAndSort(files[i]).val)
  IN upTo[Len(files)]

\* lines 148-158 for the k-th image, page_counter being k; nothing is done
\* once an image has failed
ExtractStep(prev, item, k, pad) ==
  IF prev.exc # NoExc THEN prev
  ELSE ExtractAndRename(prev.tmp, item.src, item.name, NumberedName(k, pad, item.name))

\* lines 144-160 on the working directory tmp0
ExtractAll(items, pad, tmp0) ==
  LET st[k \in 0..Len(items)] ==
        IF k = 0 THEN [exc |-> NoExc, tmp |-> tmp0]
        ELSE ExtractStep(st[k - 1], items[k], k, pad)
  IN st[Len(items)]

\* lines 129-139: the working directory before the extraction
TmpWithCover(cover, pad) ==
  IF cover.given /\ cover.exists
  THEN CopyCover([EmptyTmp EXCEPT !.exists = TRUE], cover, pad)
  ELSE [EmptyTmp EXCEPT !.exists = TRUE]

\* lines 164-171
WrittenFrom(entries) ==
  IF entries = <<>>
  THEN [exc |-> Raise("CBZProcessingError", "No images to write to output CBZ"),
        entries |-> <<>>]
  ELSE [exc |-> NoExc, entries |-> entries]

\* lines 155-171, st being the outcome of the extraction
AfterExtract(st) ==
  IF st.exc # NoExc
  THEN [exc |-> Raise("CBZProcessingError", "Failed to extract image"), entries |-> <<>>]
  ELSE WrittenFrom(ImagesToWrite(st.tmp))

\* lines 125-171 with padding pad
ProcessWith(files, cover, pad) ==
  AfterExtract(ExtractAll(ExtractionItems(files), pad, TmpWithCover(cover, pad)))

\* lines 118-171, c being the outcome of the count
AfterCount(files, cover, c) ==
  IF c.exc # NoExc THEN [exc |-> HandleOuter(c.exc), entries |-> <<>>]
  ELSE ProcessWith(files, cover, Padding(c.total))

\* lines 98-171, e being the outcome of the checks of the arguments
AfterValidate(files, cover, e) ==
  IF e # NoExc THEN [exc |-> HandleOuter(e), entries |-> <<>>]
  ELSE AfterCount(files, cover, CountImages(files, cover))

\* process_cbz_images(cbz_files, output_cbz, cover_path) when no input or
\* output operation fails: the exception raised, or the entries written
process_cbz_images(files, cover) ==
  AfterValidate(files, cover, ValidateInputs(files, cover))

\* Under Spec, the call taken step by step ends as process_cbz_images says,
\* unless an input or output operation has failed.
StepsAgreeWithCall ==
  /\ pc = "done" =>
       process_cbz_images(cbz_files, cover_path) = [exc |-> NoExc, entries |-> outFile.entries]
  /\ (pc = "failed" /\ process_cbz_images(cbz_files, cover_path).exc # NoExc) =>
       exc = process_cbz_images(cbz_files, cover_path).exc

(***************************************************************************)
(* modes.py: regroup_cbz                                                   *)
(*                                                                         *)
(* A dict is a function from its keys; the dict tomes, whose order of      *)
(* insertion is the order of the last loop, is a sequence of records.  A   *)
(* JSON scalar is a record: an integer n, the float n + 0.5, a string or   *)
(* null.  A 'chapters' value is absent, a list of scalars, or another      *)
(* value; a tome entry is a dict or null.                                  *)
(***************************************************************************)

\* d[k] = v
DictPut(d, k, v) == [x \in (DOMAIN d) \cup {k} |-> IF x = k THEN v ELSE d[x]]

JInt(n) == [t |-> "int", n |-> n, s |-> <<>>]

JHalf(n) == [t |-> "float", n |-> n, s |-> <<>>]

JStr(s) == [t |-> "str", n |-> 0, s |-> s]

JNull == [t |-> "null", n |-> 0, s |-> <<>>]

\* int(x) on a value read from JSON: an integer is itself, a float is
\* truncated, a string is parsed, None raises TypeError (ok is FALSE)
ToInt(x) ==
  CASE x.t = "int" -> [ok |-> TRUE, val |-> x.n]
    [] x.t = "float" -> [ok |-> TRUE, val |-> x.n]
    [] x.t = "str" -> ParseInt(x.s)
    [] OTHER -> [ok |-> FALSE, val |-> 0]

\* lines 187-190: the two classes of the package are raised again, any other
\* exception leaves as a CBZProcessingError
HandleRegroup(e) ==
  IF e.type \in {"InvalidJSONError", "CBZProcessingError"} THEN e
  ELSE Raise("CBZProcessingError", "Unexpected error during regrouping")

\* input_path.glob("*.cbz") keeps the names that end with .cbz
IsCbzName(name) ==
  Len(name) >= Len(CbzSuffix)
  /\ SubSeq(name, Len(name) - Len(CbzSuffix) + 1, Len(name)) = CbzSuffix

\* the first failure ends the collection: the later ones are not recorded
KeepFirstFailure(failed, name, e) ==
  IF failed = <<>> THEN <<[filename |-> name, error |-> e.msg]>> ELSE failed

\* line 91: failed_extractions.append((cbz.name, str(e)))
AppendFailure(failed, name, e) ==
  Append(failed, [filename |-> name, error |-> e.msg])

TomeError(msg) == Raise("InvalidJSONError", msg)

InvalidTome == TomeError("Invalid tome number or chapter range")

NoTome == [num |-> 0, start |-> 0, end |-> 0]

\* lines 121-122, a and b being int(start) and int(end)
ParsedRange(num, a, b) ==
  IF a.ok /\ b.ok
  THEN [exc |-> NoExc, tome |-> [num |-> num, start |-> a.val, end |-> b.val]]
  ELSE [exc |-> InvalidTome, tome |-> NoTome]

\* lines 109-122 on the entry of tome number num
ParseTomeData(num, tome_data) ==
  CASE tome_data.kind # "dict" -> [exc |-> InvalidTome, tome |-> NoTome]
    [] tome_data.chapters.kind = "absent" ->
         [exc |-> TomeError("missing 'chapters' key"), tome |-> NoTome]
    [] tome_data.chapters.kind # "list" \/ Len(tome_data.chapters.items) # 2 ->
         [exc |-> TomeError("'chapters' must be a list/tuple with 2 elements"),
          tome |-> NoTome]
    [] OTHER -> ParsedRange(num, ToInt(tome_data.chapters.items[1]),
                            ToInt(tome_data.chapters.items[2]))

\* lines 106-124, k being int(tome_key)
ParseTomeWith(k, tome_data) ==
  IF k.ok THEN ParseTomeData(k.val, tome_data)
  ELSE [exc |-> InvalidTome, tome |-> NoTome]

ParseTome(tome_key, tome_data) == ParseTomeWith(ParseInt(tome_key), tome_data)

\* line 122: tomes[tome_num] = ..., at the place of the key if it is there
TomesPut(ts, t) ==
  IF \E i \in 1..Len(ts) : ts[i].num = t.num
  THEN [i \in 1..Len(ts) |-> IF ts[i].num = t.num THEN t ELSE ts[i]]
  ELSE Append(ts, t)

\* the loop over the covers without the test of line 141: every cover given
\* is kept
CoversUnchecked(entries) ==
  LET acc[i \in 0..Len(entries)] ==
        IF i = 0 THEN [covers |-> <<>>, warnings |-> <<>>]
        ELSE IF ~entries[i].data.cover.given THEN acc[i - 1]
        ELSE [acc[i - 1] EXCEPT
                !.covers = DictPut(@, ParseInt(entries[i].key).val,
                                   entries[i].data.cover)]
  IN acc[Len(entries)]

\* lines 137-147 for the entries of infos["tomes"] up to the i-th
CoversUpTo(entries) ==
  LET acc[i \in 0..Len(entries)] ==
        IF i = 0 THEN [covers |-> <<>>, warnings |-> <<>>]
        ELSE IF ~entries[i].data.cover.given THEN acc[i - 1]
        ELSE IF ~entries[i].data.cover.exists
             THEN [acc[i - 1] EXCEPT
                     !.warnings = Append(@, [kind |-> "cover not found",
                                             tome |-> ParseInt(entries[i].key).val,
                                             chapters |-> <<>>])]
             ELSE [acc[i - 1] EXCEPT
                     !.covers = DictPut(@, ParseInt(entries[i].key).val,
                                        entries[i].data.cover)]
  IN acc[Len(entries)]

\* lines 150-151
TomePadding(ts) == Len(IntStr(MaxOf({ts[i].num : i \in 1..Len(ts)})))

\* the range walked from end down to start
CollectDescending(chaps, start, end) ==
  LET acc[i \in 0..(IF end >= start THEN end - start + 1 ELSE 0)] ==
        IF i = 0 THEN [imgs_cbz |-> <<>>, missing_chapters |-> <<>>]
        ELSE IF (end - i + 1) \in DOMAIN chaps
             THEN [acc[i - 1] EXCEPT !.imgs_cbz = Append(@, chaps[end - i + 1])]
             ELSE [acc[i - 1] EXCEPT !.missing_chapters = Append(@, end - i + 1)]
  IN acc[IF end >= start THEN end - start + 1 ELSE 0]

\* lines 159-165: for chap in range(start, end + 1)
CollectChapters(chaps, start, end) ==
  LET acc[i \in 0..(IF end >= start THEN end - start + 1 ELSE 0)] ==
        IF i = 0 THEN [imgs_cbz |-> <<>>, missing_chapters |-> <<>>]
        ELSE IF (start + i - 1) \in DOMAIN chaps
             THEN [acc[i - 1] EXCEPT !.imgs_cbz = Append(@, chaps[start + i - 1])]
             ELSE [acc[i - 1] EXCEPT !.missing_chapters = Append(@, start + i - 1)]
  IN acc[IF end >= start THEN end - start + 1 ELSE 0]

series_name == <<"S">>

postfix == <<>>

\* line 175: f"{series_name} - Tome {tome_num:0{tome_padding}d}{postfix}.cbz"
OutName(tome_num, pad) ==
  series_name \o <<" ", "-", " ", "T", "o", "m", "e", " ">> \o ZeroPad(tome_num, pad)
  \o postfix \o CbzSuffix

(***************************************************************************)
(* The inputs of regroup_cbz                                               *)
(***************************************************************************)

R_S_1 == <<"S", " ", "-", " ", "1", ".", "c", "b", "z">>

R_S_2 == <<"S", " ", "-", " ", "2", ".", "c", "b", "z">>

R_S_01 == <<"S", " ", "-", " ", "0", "1", ".", "c", "b", "z">>

R_ch3 == <<"S", " ", "c", "h", "3", ".", "c", "b", "z">>

R_random == <<"r", "a", "n", "d", "o", "m", ".", "c", "b", "z">>

R_12 == <<"1", "2", ".", "c", "b", "z">>

R_notes == <<"n", "o", "t", "e", "s", ".", "t", "x", "t">>

\* the namelist of each archive of the input directory; chapter 3 is an
\* archive without an image
ArchiveOf(name) ==
  CASE name = R_S_1 -> <<E_001_jpg>>
    [] name = R_S_2 -> <<E_b_JPG, E_x_txt>>
    [] name = R_S_01 -> <<E_000_jpg>>
    [] OTHER -> <<>>

\* the paths of imgs_cbz as process_cbz_images opens them
Sources(imgs_cbz) == [i \in 1..Len(imgs_cbz) |-> ZipSource(ArchiveOf(imgs_cbz[i]))]

\* the listings of the input directory, in the order of discovery
Listings ==
  { <<>>, <<R_notes>>, <<R_S_1>>, <<R_S_1, R_S_2>>, <<R_S_2, R_notes, R_S_1>>,
    <<R_S_1, R_S_2, R_ch3>>, <<R_ch3, R_S_1>>, <<R_S_1, R_S_01>>, <<R_S_01, R_S_2, R_S_1>>,
    <<R_random>>, <<R_S_1, R_random>>, <<R_random, R_S_1, R_12>>, <<R_12, R_random>> }

InputPaths ==
  {[is_file |-> FALSE, listing |-> l] : l \in Listings}
  \cup {[is_file |-> TRUE, listing |-> <<>>]}

\* the most tomes of a configuration
MaxTomes == 2

TomeKeys == { <<"1">>, <<"1", "0">>, <<"-", "1">>, <<"x">> }

ChaptersList(items) == [kind |-> "list", items |-> items]

ChaptersAbsent == [kind |-> "absent", items |-> <<>>]

ChaptersOther == [kind |-> "other", items |-> <<>>]

TomeDict(chaps, cover) == [kind |-> "dict", chapters |-> chaps, cover |-> cover]

TomeNull == [kind |-> "null", chapters |-> ChaptersAbsent, cover |-> NoCover]

CoverMissing == [given |-> TRUE, exists |-> FALSE, name |-> C_cover_JPG]

CoverThere == [given |-> TRUE, exists |-> TRUE, name |-> C_cover_JPG]

TomeDatas ==
  { TomeDict(ChaptersList(<<JInt(1), JInt(2)>>), NoCover),
    TomeDict(ChaptersList(<<JInt(1), JInt(2)>>), CoverThere),
    TomeDict(ChaptersList(<<JInt(2), JInt(4)>>), CoverMissing),
    TomeDict(ChaptersList(<<JInt(4), JInt(4)>>), NoCover),
    TomeDict(ChaptersList(<<JInt(4), JInt(4)>>), CoverThere),
    TomeDict(ChaptersList(<<JHalf(1), JInt(2)>>), NoCover),
    TomeDict(ChaptersList(<<JStr(<<"a">>), JInt(2)>>), NoCover),
    TomeDict(ChaptersList(<<JInt(1), JNull>>), NoCover),
    TomeDict(ChaptersList(<<JInt(1)>>), NoCover),
    TomeDict(ChaptersOther, NoCover),
    TomeDict(ChaptersAbsent, CoverThere),
    TomeNull }

TomeEntries ==
  {[key |-> k, data |-> d] : k \in TomeKeys \ {<<"-", "1">>, <<"x">>}, d \in TomeDatas}
  \cup {[key |-> k, data |-> TomeDict(ChaptersList(<<JInt(1), JInt(2)>>), NoCover)] :
          k \in TomeKeys \cap {<<"-", "1">>, <<"x">>}}

\* the objects of at most n entries, no key twice
TomeObjects(n) ==
  UNION {{s \in [1..k -> TomeEntries] : \A i, j \in 1..k : i # j => s[i].key # s[j].key}
         : k \in 0..n}

\* the configurations: no 'tomes' key, a 'tomes' that is null, a 'tomes' object
Configs ==
  {NoInfos, [has_tomes |-> TRUE, tomes_kind |-> "null", tomes |-> <<>>]}
  \cup {[has_tomes |-> TRUE, tomes_kind |-> "dict", tomes |-> s] : s \in TomeObjects(MaxTomes)}

\* how the input and output operations of one call of process_cbz_images go
IoOutcomes == {"ok", "extract fails", "write fails"}

InitRegroup ==
  /\ args = NoArgs
  /\ input_path \in InputPaths
  /\ infos \in Configs
  /\ pc = "rg_start"
  /\ exc = NoExc
  /\ RegroupLocals
  /\ RepackIdle
  /\ SortIdle
  /\ ChapterIdle

\* the call ends with exception e
RegroupFail(e) ==
  /\ pc' = "rg_failed"
  /\ exc' = HandleRegroup(e)

\* lines 71-81, found being the outcome of glob
StartDo(found) ==
  IF input_path.is_file
  THEN /\ RegroupFail(Raise("CBZProcessingError",
                            "Regroup mode (--series) only works with directories"))
       /\ UNCHANGED <<globbed, fileIdx>>
  ELSE IF found = <<>>
       THEN /\ RegroupFail(Raise("CBZProcessingError", "No CBZ files found in directory"))
            /\ UNCHANGED <<globbed, fileIdx>>
       ELSE /\ globbed' = found
            /\ fileIdx' = 1
            /\ pc' = "rg_chapters"
            /\ UNCHANGED exc

RegroupStart ==
  /\ pc = "rg_start"
  /\ StartDo(SelectSeq(input_path.listing, IsCbzName))
  /\ UNCHANGED <<args, input_path, infos, chapters, failed_extractions, error_msg, tomes,
                 tomeIdx, covers, tome_padding, calls, warnings, out_dir,
                 repackVars, sortVars, chapterVars>>

\* a chapter number that is already in the index keeps its archive
ChapterDoKeepFirst(name, r) ==
  IF r.exc = NoExc
  THEN chapters' = (IF r.val \in DOMAIN chapters THEN chapters
                    ELSE DictPut(chapters, r.val, name))
       /\ UNCHANGED failed_extractions
  ELSE failed_extractions' = AppendFailure(failed_extractions, name, r.exc)
       /\ UNCHANGED chapters

\* lines 87-91, r being the outcome of extract_chapter_number(cbz.name)
ChapterDo(name, r) ==
  IF r.exc = NoExc
  THEN chapters' = DictPut(chapters, r.val, name) /\ UNCHANGED failed_extractions
  ELSE failed_extractions' = AppendFailure(failed_extractions, name, r.exc)
       /\ UNCHANGED chapters

\* lines 86-91: one turn of the loop over cbz_files
RegroupChapter ==
  /\ pc = "rg_chapters"
  /\ fileIdx <= Len(globbed)
  /\ ChapterDo(globbed[fileIdx], extract_chapter_number(globbed[fileIdx]))
  /\ fileIdx' = fileIdx + 1
  /\ UNCHANGED <<pc, exc, args, input_path, infos, globbed, error_msg, tomes, tomeIdx,
                 covers, tome_padding, calls, warnings, out_dir,
                 repackVars, sortVars, chapterVars>>

\* lines 93-97: the failures are reported together
RegroupChaptersEnd ==
  /\ pc = "rg_chapters"
  /\ fileIdx > Len(globbed)
  /\ IF failed_extractions # <<>>
     THEN /\ error_msg' = failed_extractions
          /\ RegroupFail(Raise("InvalidJSONError", "Failed to extract chapter numbers"))
     ELSE /\ pc' = "rg_config"
          /\ UNCHANGED <<exc, error_msg>>
  /\ UNCHANGED <<args, input_path, infos, globbed, fileIdx, chapters, failed_extractions,
                 tomes, tomeIdx, covers, tome_padding, calls, warnings, out_dir,
                 repackVars, sortVars, chapterVars>>

\* lines 100-105 and 126-130: the 'tomes' key is looked up and its items are
\* taken; a missing key is a KeyError, a value without items an AttributeError
RegroupConfig ==
  /\ pc = "rg_config"
  /\ IF ~infos.has_tomes
     THEN /\ RegroupFail(Raise("InvalidJSONError", "Invalid JSON structure. Missing 'tomes' key"))
          /\ UNCHANGED tomeIdx
     ELSE IF infos.tomes_kind # "dict"
          THEN /\ RegroupFail(Raise("AttributeError", "object has no attribute 'items'"))
               /\ UNCHANGED tomeIdx
          ELSE /\ pc' = "rg_tomes"
               /\ tomeIdx' = 1
               /\ UNCHANGED exc
  /\ UNCHANGED <<args, input_path, infos, globbed, fileIdx, chapters, failed_extractions,
                 error_msg, tomes, covers, tome_padding, calls, warnings, out_dir,
                 repackVars, sortVars, chapterVars>>

\* lines 106-124, r being the outcome of the parsing of the entry
TomeParsed(entry, r) ==
  IF r.exc # NoExc
  THEN /\ RegroupFail(r.exc)
       /\ error_msg' = <<[filename |-> entry.key, error |-> r.exc.msg]>>
       /\ UNCHANGED <<tomes, tomeIdx>>
  ELSE /\ tomes' = TomesPut(tomes, r.tome)
       /\ tomeIdx' = tomeIdx + 1
       /\ UNCHANGED <<pc, exc, error_msg>>

\* lines 105-124: one turn of the loop over infos["tomes"].items()
RegroupTomeParse ==
  /\ pc = "rg_tomes"
  /\ tomeIdx <= Len(infos.tomes)
  /\ TomeParsed(infos.tomes[tomeIdx],
                ParseTome(infos.tomes[tomeIdx].key, infos.tomes[tomeIdx].data))
  /\ UNCHANGED <<args, input_path, infos, globbed, fileIdx, chapters, failed_extractions,
                 covers, tome_padding, calls, warnings, out_dir,
                 repackVars, sortVars, chapterVars>>

\* lines 135-151, c being the outcome of the loop over the covers
CoversDo(c) ==
  /\ covers' = c.covers
  /\ warnings' = warnings \o c.warnings
  /\ tome_padding' = TomePadding(tomes)
  /\ tomeIdx' = 1
  /\ pc' = "rg_process"
  /\ UNCHANGED exc

\* lines 132-151: no tome is an error; the covers are looked up, the padding
\* of the tome numbers is computed
RegroupCovers ==
  /\ pc = "rg_tomes"
  /\ tomeIdx > Len(infos.tomes)
  /\ IF tomes = <<>>
     THEN /\ RegroupFail(Raise("InvalidJSONError", "No tomes found in JSON configuration"))
          /\ UNCHANGED <<covers, warnings, tome_padding, tomeIdx>>
     ELSE CoversDo(CoversUpTo(infos.tomes))
  /\ UNCHANGED <<args, input_path, infos, globbed, fileIdx, chapters, failed_extractions,
                 error_msg, tomes, calls, out_dir, repackVars, sortVars, chapterVars>>

\* what a call of process_cbz_images leaves, r being its outcome when no input
\* or output operation fails and io being how these operations go
CallOutcome(r, io) ==
  CASE r.exc # NoExc -> [exc |-> r.exc, state |-> "none", entries |-> <<>>]
    [] io = "extract fails" ->
         [exc |-> Raise("CBZProcessingError", "Failed to extract image"),
          state |-> "none", entries |-> <<>>]
    [] io = "write fails" ->
         [exc |-> Raise("CBZProcessingError", "Failed to write output CBZ file"),
          state |-> "partial", entries |-> <<>>]
    [] OTHER -> [exc |-> NoExc, state |-> "written", entries |-> r.entries]

\* lines 167-183, o being what the call of process_cbz_images leaves
TomeResult(t, c, cover, out_name, o) ==
  /\ warnings' =
       IF c.missing_chapters # <<>>
       THEN Append(warnings, [kind |-> "missing chapters", tome |-> t.num,
                              chapters |-> c.missing_chapters])
       ELSE warnings
  /\ calls' = Append(calls, [tome |-> t.num, files |-> c.imgs_cbz, out_name |-> out_name,
                             cover |-> cover, exc |-> o.exc])
  /\ out_dir' =
       IF o.state = "none" THEN out_dir
       ELSE DictPut(out_dir, out_name, [state |-> o.state, entries |-> o.entries])
  /\ IF o.exc = NoExc
     THEN tomeIdx' = tomeIdx + 1 /\ UNCHANGED <<pc, exc>>
     ELSE RegroupFail(o.exc) /\ UNCHANGED tomeIdx

\* lines 175-179 for tome t, c being the chapters collected for it
TomeCall(t, c, cover, io) ==
  TomeResult(t, c, cover, OutName(t.num, tome_padding),
             CallOutcome(process_cbz_images(Sources(c.imgs_cbz), cover), io))

\* lines 155-165 for tome t
TomeDo(t, io) ==
  TomeCall(t, CollectChapters(chapters, t.start, t.end),
           IF t.num \in DOMAIN covers THEN covers[t.num] ELSE NoCover, io)

\* lines 154-183: one turn of the loop over tomes
RegroupTome ==
  /\ pc = "rg_process"
  /\ tomeIdx <= Len(tomes)
  /\ \E io \in IoOutcomes : TomeDo(tomes[tomeIdx], io)
  /\ UNCHANGED <<args, input_path, infos, globbed, fileIdx, chapters,
                 failed_extractions, error_msg, tomes, covers, tome_padding,
                 repackVars, sortVars, chapterVars>>

\* line 185
RegroupDone ==
  /\ pc = "rg_process"
  /\ tomeIdx > Len(tomes)
  /\ pc' = "rg_done"
  /\ UNCHANGED <<exc, regroupVars, repackVars, sortVars, chapterVars>>

NextRegroup ==
  \/ RegroupStart
  \/ RegroupChapter
  \/ RegroupChaptersEnd
  \/ RegroupConfig
  \/ RegroupTomeParse
  \/ RegroupCovers
  \/ RegroupTome
  \/ RegroupDone

SpecRegroup == InitRegroup /\ [][NextRegroup]_vars

(***************************************************************************)
(* What the contract of regroup expects of one run                         *)
(***************************************************************************)

\* the chapters of the range of tome t that are in ChapterIndex, and the others
PresentChapters(t) == {c \in t.start..t.end : c \in DOMAIN chapters}

AbsentChapters(t) == {c \in t.start..t.end : c \notin DOMAIN chapters}

\* the chapter an archive passed to repackage stands for
ChapterOf(t, file) == CHOOSE c \in PresentChapters(t) : chapters[c] = file

\* the archives passed are those of the present chapters, in ascending order
PassedInChapterOrder(t, files) ==
  /\ Len(files) = Cardinality(PresentChapters(t))
  /\ \A i \in 1..Len(files) : \E c \in PresentChapters(t) : chapters[c] = files[i]
  /\ \A i, j \in 1..Len(files) : i < j => ChapterOf(t, files[i]) < ChapterOf(t, files[j])

\* the absent chapters of the tome are named in a warning
AbsentAreWarned(t) ==
  AbsentChapters(t) # {} =>
    \E i \in 1..Len(warnings) :
      /\ warnings[i].kind = "missing chapters"
      /\ warnings[i].tome = t.num
      /\ {warnings[i].chapters[j] : j \in 1..Len(warnings[i].chapters)} = AbsentChapters(t)

ZeroImageGuard == "No images found in any CBZ files"

\* C8, as stated: for every tome processed, the archives passed to repackage
\* are those of the present chapters of its range in ascending order, the
\* absent chapters are named in a warning, and a tome with absent chapters
\* never fails for lack of archives.
C8_AbsenceNeverFails ==
  \A k \in 1..Len(calls) :
    /\ PassedInChapterOrder(tomes[k], calls[k].files)
    /\ AbsentAreWarned(tomes[k])
    /\ calls[k].exc.msg = ZeroImageGuard => AbsentChapters(tomes[k]) = {}

\* C8, amended: the same, but the absence of chapters does not make the tome
\* fail only as long as one chapter of the range is present or the tome has
\* a cover; a tome without any archive and without a cover fails by the
\* zero-image guard of repackage.
C8_AbsenceFailsOnlyWithoutArchiveAndCover ==
  \A k \in 1..Len(calls) :
    /\ PassedInChapterOrder(tomes[k], calls[k].files)
    /\ AbsentAreWarned(tomes[k])
    /\ calls[k].exc.msg = ZeroImageGuard <=>
         (PresentChapters(tomes[k]) = {} /\ ~calls[k].cover.given)

\* chapters 1 and 2 on disk, a tome of range 2..4: chapter 2 is passed, 3
\* and 4 are named in the warning, the run succeeds
C8_Witness ==
  /\ pc = "rg_done"
  /\ DOMAIN chapters = {1, 2}
  /\ Len(calls) = 1
  /\ tomes[1].start = 2 /\ tomes[1].end = 4
  /\ calls[1].files = <<R_S_2>>
  /\ calls[1].exc = NoExc
  /\ \E i \in 1..Len(warnings) :
       warnings[i].kind = "missing chapters" /\ warnings[i].chapters = <<3, 4>>

\* a tome key that is an integer
KeyIsInteger(key) ==
  LET digits == IF key # <<>> /\ key[1] = "-" THEN Tail(key) ELSE key
  IN digits # <<>> /\ AllDigits(digits)

\* a tome entry of the configuration that is well-formed
WellFormedTome(entry) ==
  /\ KeyIsInteger(entry.key)
  /\ entry.data.kind = "dict"
  /\ entry.data.chapters.kind = "list"
  /\ Len(entry.data.chapters.items) = 2
  /\ \A i \in 1..2 : entry.data.chapters.items[i].t = "int"

\* no 'tomes' key, an empty 'tomes' object, or a tome that is not well-formed
ConfigInvalid ==
  \/ ~infos.has_tomes
  \/ /\ infos.tomes_kind = "dict"
     /\ \/ infos.tomes = <<>>
        \/ \E i \in 1..Len(infos.tomes) : ~WellFormedTome(infos.tomes[i])

\* the run has come to the parsing of the configuration
ConfigReached == ~input_path.is_file /\ globbed # <<>> /\ failed_extractions = <<>>

\* C9: a run with an invalid configuration never invokes repackage and never
\* writes an archive, and when it has come to the configuration it fails
\* with InvalidJSONError.
C9_InvalidConfigFailsBeforeRepackage ==
  ConfigInvalid =>
    /\ calls = <<>>
    /\ out_dir = <<>>
    /\ pc \notin {"rg_process", "rg_done"}
    /\ (pc = "rg_failed" /\ ConfigReached) => exc.type = "InvalidJSONError"

\* no pattern of extractChapterNumber matches the name
NoPatternMatches(name) == \A i \in 1..Len(PatternLeads) : ~NameMatches(name, i)

\* the file names of a list of failures
FailedNames(failures) == [i \in 1..Len(failures) |-> failures[i].filename]

\* C10: the extraction is run on every discovered name, failures included;
\* when a name fails, the run fails with one InvalidJSONError that lists
\* every failing name with its reason, the configuration has not been
\* parsed and no archive has been written.
C10_ChapterFailuresAccumulated ==
  /\ pc = "rg_chapters" =>
       FailedNames(failed_extractions) =
         SelectSeq(SubSeq(globbed, 1, fileIdx - 1), NoPatternMatches)
  /\ SelectSeq(globbed, NoPatternMatches) # <<>> =>
       /\ pc \in {"rg_chapters", "rg_failed"}
       /\ tomes = <<>> /\ tomeIdx = 0 /\ covers = <<>>
       /\ calls = <<>> /\ out_dir = <<>>
       /\ pc = "rg_failed" =>
            /\ exc.type = "InvalidJSONError"
            /\ FailedNames(error_msg) = SelectSeq(globbed, NoPatternMatches)
            /\ \A i \in 1..Len(error_msg) : error_msg[i].error = ChapterError.msg
  /\ (pc = "rg_failed" /\ exc.msg = "Failed to extract chapter numbers") =>
       SelectSeq(globbed, NoPatternMatches) # <<>>

\* random.cbz, 'S - 1.cbz' and 12.cbz discovered in this order: the error
\* lists random.cbz and 12.cbz
C10_Witness ==
  /\ pc = "rg_failed"
  /\ globbed = <<R_random, R_S_1, R_12>>
  /\ FailedNames(error_msg) = <<R_random, R_12>>
  /\ DOMAIN chapters = {1}
  /\ infos.has_tomes

\* the keys of the tome entries of the configuration that are not well-formed
MalformedKeys ==
  {infos.tomes[i].key : i \in {j \in 1..Len(infos.tomes) : ~WellFormedTome(infos.tomes[j])}}

\* C11: when the run fails on the tomes of the configuration, the error
\* names every malformed tome, not only the first one met.
C11_EveryMalformedTomeNamed ==
  (pc = "rg_failed" /\ ConfigReached /\ infos.has_tomes /\ infos.tomes_kind = "dict"
   /\ infos.tomes # <<>> /\ calls = <<>>) =>
    {error_msg[i].filename : i \in 1..Len(error_msg)} = MalformedKeys

\* the 'cover' field of the entry of the configuration for tome number num
CoverFieldOf(num) ==
  (CHOOSE e \in {infos.tomes[i] : i \in 1..Len(infos.tomes)} :
     ParseInt(e.key).ok /\ ParseInt(e.key).val = num).data.cover

\* a warning tells that the cover of tome number num was not found
CoverWarned(num) ==
  \E i \in 1..Len(warnings) :
    warnings[i].kind = "cover not found" /\ warnings[i].tome = num

MaxInterruptSources == 2

MaxInterruptEntries == 2

InitInterrupt ==
  /\ cbz_files \in UNION {SourceLists(k, MaxInterruptEntries) : k \in 0..MaxInterruptSources}
  /\ cover_path \in CoverPaths
  /\ outFile \in {AbsentFile, OldFile}
  /\ pc = "validate"
  /\ InitLocals
  /\ tmp_dirs = OtherCallDirs
  /\ SortIdle
  /\ ChapterIdle
  /\ RegroupIdle

\* the call is interrupted from outside: KeyboardInterrupt is no Exception, so
\* the handlers of lines 140, 155, 173 and 176-179 let it pass as it is; the
\* with block of line 128 is left and the working directory is removed; an
\* output that was being written is left as it was or incomplete
Interrupt ==
  /\ pc \in {"validate", "count", "cover", "extract", "write"}
  /\ UNCHANGED <<sortVars, chapterVars, regroupVars>>
  /\ pc' = "interrupted"
  /\ exc' = Raise("KeyboardInterrupt", "")
  /\ LeaveWith
  /\ outFile' \in IF pc = "write"
                  THEN {outFile, [state |-> "partial", entries |-> <<>>]}
                  ELSE {outFile}
  /\ UNCHANGED <<cbz_files, cover_path, total_images, padding, page_counter,
                 srcIdx, imgIdx, new_name, prev_name>>

\* a call of process_cbz_images that may be interrupted at any step
NextInterrupt ==
  \/ Validate
  \/ Count
  \/ Cover
  \/ CoverFails
  \/ ExtractOne
  \/ ExtractFails
  \/ Write
  \/ WriteFails
  \/ Interrupt

SpecInterrupt == InitInterrupt /\ [][NextInterrupt]_vars

RootLevelFile(e) == e.content # DirContent /\ \A i \in 1..Len(e.name) : e.name[i] # "/"

\* the content of the entry is the cover, or an image entry of a source
CoverOrSourceImage(e) ==
  \/ cover_path.given /\ e.content = CoverContent(cover_path)
  \/ /\ e.content.src \in 1..Len(cbz_files)
     /\ \E i \in 1..Len(cbz_files[e.content.src].names) :
          cbz_files[e.content.src].names[i] = e.content.name
     /\ HasImageExtension(e.content.name)

\* the name of the entry is an index of the run padded to the width of the
\* run, followed by the lower-cased extension of the file it was taken from
Renumbered(e) ==
  \E k \in 0..total_images : e.name = NumberedName(k, padding, e.content.name)

\* C14: every entry of an output archive written by a successful call is a
\* file at the root of the archive, holding the cover or an image entry
\* (.jpg, .jpeg, .png) of a source, under a renumbered name: no directory,
\* no entry of another extension, no entry under a path of its source.
C14_OutputHoldsOnlyRootLevelPages ==
  pc = "done" =>
    \A k \in 1..Len(outFile.entries) :
      /\ RootLevelFile(outFile.entries[k])
      /\ CoverOrSourceImage(outFile.entries[k])
      /\ Renumbered(outFile.entries[k])

(***************************************************************************)
(* modes.py: rename_cbz_images                                             *)
(*                                                                         *)
(* The run shares with regroup_cbz the variables input_path, globbed (the  *)
(* archives of cbz_files_to_process), fileIdx (the loop over them), calls  *)
(* and out_dir.  Of an input_path that is a file, listing holds its name.  *)
(***************************************************************************)

\* lines 49-52: a CBZProcessingError is raised again, any other exception
\* leaves as a CBZProcessingError
HandleRename(e) ==
  IF e.type = "CBZProcessingError" THEN e
  ELSE Raise("CBZProcessingError", "Unexpected error during rename operation")

\* the call ends with exception e
RenameFail(e) ==
  /\ pc' = "rn_failed"
  /\ exc' = HandleRename(e)

\* the name of output_path when input_path is a file
OutputFileName == <<"o", "u", "t", ".", "c", "b", "z">>

\* line 37: cbz.stem + postfix + ".cbz"
RenameOutName(name) == Stem(name) \o postfix \o CbzSuffix

\* lines 29 and 37-39: the destination of the pair of source name
OutputOf(name) == IF input_path.is_file THEN OutputFileName ELSE RenameOutName(name)

\* lines 27-39, found being the outcome of glob
RenameStartDo(found) ==
  IF ~input_path.is_file /\ found = <<>>
  THEN /\ RenameFail(Raise("CBZProcessingError", "No CBZ files found in directory"))
       /\ UNCHANGED <<globbed, fileIdx>>
  ELSE /\ globbed' = IF input_path.is_file THEN input_path.listing ELSE found
       /\ fileIdx' = 1
       /\ pc' = "rn_process"
       /\ UNCHANGED exc

RenameStart ==
  /\ pc = "rn_start"
  /\ RenameStartDo(SelectSeq(input_path.listing, IsCbzName))
  /\ UNCHANGED <<args, input_path, infos, chapters, failed_extractions, error_msg, tomes,
                 tomeIdx, covers, tome_padding, calls, warnings, out_dir,
                 repackVars, sortVars, chapterVars>>

\* a failed call is not seen: the loop goes on
CallFailureIgnored(o) == FALSE

\* line 44: an exception of process_cbz_images leaves the loop
CallFailed(o) == o.exc # NoExc

\* lines 42-45, o being what the call of process_cbz_images leaves
RenameResult(name, out_name, o) ==
  /\ calls' = Append(calls, [tome |-> 0, files |-> <<name>>, out_name |-> out_name,
                             cover |-> NoCover, exc |-> o.exc])
  /\ out_dir' =
       IF o.state = "none" THEN out_dir
       ELSE DictPut(out_dir, out_name, [state |-> o.state, entries |-> o.entries])
  /\ IF CallFailed(o)
     THEN RenameFail(o.exc) /\ UNCHANGED fileIdx
     ELSE fileIdx' = fileIdx + 1 /\ UNCHANGED <<pc, exc>>

\* line 44: process_cbz_images([cbz], output_cbz)
RenameCall(name, out_name, io) ==
  RenameResult(name, out_name,
               CallOutcome(process_cbz_images(Sources(<<name>>), NoCover), io))

\* lines 42-45: one turn of the loop over cbz_files_to_process
RenamePair ==
  /\ pc = "rn_process"
  /\ fileIdx <= Len(globbed)
  /\ \E io \in IoOutcomes :
       RenameCall(globbed[fileIdx], OutputOf(globbed[fileIdx]), io)
  /\ UNCHANGED <<args, input_path, infos, globbed, chapters, failed_extractions,
                 error_msg, tomes, tomeIdx, covers, tome_padding, warnings,
                 repackVars, sortVars, chapterVars>>

\* line 47
RenameDone ==
  /\ pc = "rn_process"
  /\ fileIdx > Len(globbed)
  /\ pc' = "rn_done"
  /\ UNCHANGED <<exc, regroupVars, repackVars, sortVars, chapterVars>>

(***************************************************************************)
(* cli.py: a run asked for on the command line                             *)
(***************************************************************************)

\* only the empty series name is refused
SeriesIsEmpty(s) == s = <<>>

\* line 75: not series_name.strip()
SeriesIsBlank(s) == Strip(s) = <<>>

\* the most tomes of a configuration given on the command line
MaxCliTomes == 2

\* the command lines: the series name (empty when --series is not given),
\* what lies at the path of --infos ("none" when it is not given), whether
\* the path of --input exists
CliArgs ==
  [series : {series_name, <<>>, <<" ">>, <<" ", " ">>},
   infos_file : {"ok", "missing", "invalid", "none"},
   input_exists : BOOLEAN]

\* the configurations given with a series name or an input path that the
\* command line refuses: none, a well-formed tome, a tome without chapters
RefusedConfigs ==
  {NoInfos}
  \cup {[has_tomes |-> TRUE, tomes_kind |-> "dict", tomes |-> <<[key |-> <<"1">>, data |-> d]>>] :
          d \in {TomeDict(ChaptersList(<<JInt(1), JInt(2)>>), NoCover),
                  TomeDict(ChaptersAbsent, CoverThere)}}

\* the input paths of a rename run: the directories, and a file
RenameInputs ==
  {[is_file |-> FALSE, listing |-> l] : l \in Listings}
  \cup {[is_file |-> TRUE, listing |-> <<n>>] : n \in {R_S_1, R_ch3}}

InitCli ==
  /\ args \in CliArgs
  /\ input_path \in IF ~args.input_exists THEN {NoInput}
                    ELSE IF args.series = <<>> /\ args.infos_file = "none"
                         THEN RenameInputs
                         ELSE InputPaths
  /\ infos \in IF args.infos_file # "ok" THEN {NoInfos}
               ELSE IF args.series = series_name /\ args.input_exists
                    THEN {c \in Configs : Len(c.tomes) <= MaxCliTomes}
                    ELSE RefusedConfigs
  /\ pc = "cli_main"
  /\ exc = NoExc
  /\ RegroupLocals
  /\ RepackIdle
  /\ SortIdle
  /\ ChapterIdle

\* lines 48-50: the error is printed and the process exits with status 1
CliFail(e) ==
  /\ pc' = "cli_failed"
  /\ exc' = e

\* lines 36-46 of main: the input path must exist; with --series and --infos
\* the run is a regroup, with neither it is a rename, and with one of them
\* only (an empty --series is falsy) _validate_mode_arguments (118-122)
\* refuses the command line
CliMain ==
  /\ pc = "cli_main"
  /\ IF ~args.input_exists
     THEN CliFail(Raise("CBZProcessingError", "Input path does not exist"))
     ELSE IF args.series # <<>> /\ args.infos_file # "none"
          THEN pc' = "cli_regroup" /\ UNCHANGED exc
          ELSE IF args.series # <<>> \/ args.infos_file # "none"
               THEN CliFail(Raise("CBZProcessingError",
                                  "Both --series and --infos must be provided together"))
               ELSE pc' = "rn_start" /\ UNCHANGED exc
  /\ UNCHANGED <<regroupVars, repackVars, sortVars, chapterVars>>

\* lines 74-92 of _run_regroup_mode: the series name is checked, the file of
\* --infos is loaded, regroup_cbz is called
CliRegroupMode ==
  /\ pc = "cli_regroup"
  /\ IF SeriesIsBlank(args.series)
     THEN CliFail(Raise("CBZProcessingError", "--series must not be empty"))
     ELSE IF args.infos_file = "missing"
          THEN CliFail(Raise("CBZProcessingError", "JSON infos file not found"))
          ELSE IF args.infos_file = "invalid"
               THEN CliFail(Raise("InvalidJSONError", "Invalid JSON format"))
               ELSE pc' = "rg_start" /\ UNCHANGED exc
  /\ UNCHANGED <<regroupVars, repackVars, sortVars, chapterVars>>

NextCli ==
  \/ CliMain
  \/ CliRegroupMode
  \/ RenameStart
  \/ RenamePair
  \/ RenameDone
  \/ RegroupStart
  \/ RegroupChapter
  \/ RegroupChaptersEnd
  \/ RegroupConfig
  \/ RegroupTomeParse
  \/ RegroupCovers
  \/ RegroupTome
  \/ RegroupDone

SpecCli == InitCli /\ [][NextCli]_vars

\* inputPath is no directory: nothing is there, or a file is
NotADirectory == ~args.input_exists \/ input_path.is_file

\* no name of the listing of inputPath ends with .cbz
NoCbzInside ==
  \A i \in 1..Len(input_path.listing) :
    LET n == input_path.listing[i]
    IN Len(n) < 4 \/ SubSeq(n, Len(n) - 3, Len(n)) # <<".", "c", "b", "z">>

\* seriesName is empty or made only of whitespace
BlankSeries == \A i \in 1..Len(args.series) : args.series[i] = " "

\* the run is over
CliEnded == pc \in {"cli_failed", "rg_failed", "rg_done", "rn_failed", "rn_done"}

\* C15: a regroup run, its configuration file loaded, whose inputPath is no
\* directory, or holds no *.cbz file, or whose seriesName is empty or made
\* only of whitespace, ends by failing with ProcessingError, and at no
\* moment of the run has an archive been written or a repackage been called.
C15_RegroupRefusesItsInputs ==
  (args.infos_file = "ok" /\ (NotADirectory \/ NoCbzInside \/ BlankSeries)) =>
    /\ calls = <<>>
    /\ out_dir = <<>>
    /\ pc # "rg_done"
    /\ CliEnded => exc.type = "CBZProcessingError"

\* a run with a whitespace series name on a directory of chapters and a
\* well-formed configuration, refused before regroup_cbz is called
C15_Witness ==
  /\ pc = "cli_failed"
  /\ args.series = <<" ", " ">>
  /\ args.infos_file = "ok"
  /\ input_path.listing = <<R_S_1, R_S_2>>
  /\ Len(infos.tomes) = 1
  /\ WellFormedTome(infos.tomes[1])
  /\ exc = Raise("CBZProcessingError", "--series must not be empty")
  /\ out_dir = <<>>

(***************************************************************************)
(* The names of the tomes of one run                                       *)
(***************************************************************************)

\* the part of an output name between "<seriesName> - Tome " and
\* "<postfix>.cbz"
NumberPartOf(name) ==
  SubSeq(name, Len(series_name) + 9, Len(name) - Len(postfix) - 4)

\* name is "<seriesName> - Tome <number><postfix>.cbz" for some number part
TomeNameShape(name) ==
  name = series_name \o <<" ", "-", " ", "T", "o", "m", "e", " ">> \o NumberPartOf(name)
         \o postfix \o <<".", "c", "b", "z">>

\* the largest tome number of the configuration
LargestTome == MaxOf({tomes[i].num : i \in 1..Len(tomes)})

\* the number of decimal digits of n, its sign left aside
DigitsOf(n) == IF n = 0 THEN 1 ELSE DigitCount(IF n < 0 THEN -n ELSE n)

\* the digits of a written number, its sign left aside
DigitsPart(ds) == IF ds # <<>> /\ ds[1] = "-" THEN Tail(ds) ELSE ds

\* ds writes the number n with exactly width digits, zeros on the left
PaddedTo(ds, n, width) ==
  /\ Len(DigitsPart(ds)) = width
  /\ \A i \in 1..Len(DigitsPart(ds)) : IsDigit(DigitsPart(ds)[i])
  /\ DigitsValue(DigitsPart(ds)) = (IF n < 0 THEN -n ELSE n)
  /\ (DigitsPart(ds) # ds) <=> n < 0

\* the names of the tomes called so far have the shape of the contract, all
\* with as many digits as the largest tome number has, and two tomes never
\* share a name
TomeNamesAsContract ==
  \A k \in 1..Len(calls) :
    /\ TomeNameShape(calls[k].out_name)
    /\ PaddedTo(NumberPartOf(calls[k].out_name), calls[k].tome, DigitsOf(LargestTome))
    /\ \A j \in 1..Len(calls) :
         calls[j].tome # calls[k].tome => calls[j].out_name # calls[k].out_name

\* C16: in every run, every tome is named
\* "<seriesName> - Tome <number><postfix>.cbz", the number zero-padded to the
\* digit count of the largest tome number of the configuration, without a
\* minimum of 3: all the tomes of the run get the same number width, and
\* distinct tome numbers give distinct names.
C16_TomeNamesPaddedAlike == TomeNamesAsContract

\* the same, of the runs whose tome numbers are all non-negative
NonNegativeTomeNamesPaddedAlike ==
  (\A i \in 1..Len(tomes) : tomes[i].num >= 0) => TomeNamesAsContract

\* a run that made tome 1 and tome 10, under the names "S - Tome 01.cbz" and
\* "S - Tome 10.cbz"
TomesOneAndTenNamed ==
  /\ pc = "rg_done"
  /\ Len(calls) = 2
  /\ calls[1].tome = 1
  /\ calls[1].out_name = <<"S", " ", "-", " ", "T", "o", "m", "e", " ", "0", "1", ".", "c", "b", "z">>
  /\ calls[2].tome = 10
  /\ calls[2].out_name = <<"S", " ", "-", " ", "T", "o", "m", "e", " ", "1", "0", ".", "c", "b", "z">>

(***************************************************************************)
(* The order of the repackage calls of a run                               *)
(***************************************************************************)

\* the run is a rename
RenameRun == pc \in {"rn_start", "rn_process", "rn_done", "rn_failed"}

\* the name ends with .cbz
EndsWithCbz(n) == Len(n) >= 4 /\ SubSeq(n, Len(n) - 3, Len(n)) = <<".", "c", "b", "z">>

\* the archives of a rename run in discovery order: the file itself, or the
\* names of the directory that end with .cbz
DiscoveredArchives ==
  IF input_path.is_file THEN input_path.listing
  ELSE SelectSeq(input_path.listing, EndsWithCbz)

\* call k is for item k of the run: pair k in discovery order, tome k in
\* configuration order
CallIsForItem(k) ==
  IF RenameRun
  THEN k <= Len(DiscoveredArchives) /\ calls[k].files = <<DiscoveredArchives[k]>>
  ELSE k <= Len(infos.tomes) /\ calls[k].tome = ParseInt(infos.tomes[k].key).val

\* the output of call k is on disk as the call wrote it
OutputRemains(k) ==
  /\ calls[k].out_name \in DOMAIN out_dir
  /\ out_dir[calls[k].out_name].state = "written"
  /\ out_dir[calls[k].out_name].entries =
       process_cbz_images(Sources(calls[k].files), calls[k].cover).entries

\* C17: in a rename run and in a regroup run the repackage calls are made one
\* after another, call k for item k (the pairs in discovery order, the tomes
\* in configuration order); a call is made only when all the calls before it
\* succeeded, the failure of a call ends the run with that failure, and the
\* output of every call that succeeded stays on disk as it was written.
C17_SequentialAndFirstFailureAborts ==
  /\ \A k \in 1..Len(calls) :
       /\ CallIsForItem(k)
       /\ k < Len(calls) => calls[k].exc = NoExc
       /\ calls[k].exc = NoExc => OutputRemains(k)
  /\ (calls # <<>> /\ calls[Len(calls)].exc # NoExc) =>
       /\ pc \in {"rn_failed", "rg_failed"}
       /\ exc = calls[Len(calls)].exc

\* a rename run over three archives whose second call failed: the first
\* output is on disk, the third archive was never processed
C17_Witness ==
  /\ pc = "rn_failed"
  /\ globbed = <<R_S_1, R_S_2, R_ch3>>
  /\ Len(calls) = 2
  /\ calls[1].exc = NoExc
  /\ calls[2].exc # NoExc
  /\ out_dir[RenameOutName(R_S_1)].state = "written"
  /\ RenameOutName(R_ch3) \notin DOMAIN out_dir

\* a regroup run of two tomes whose second call failed: the first tome is on
\* disk
SecondTomeFailed ==
  /\ pc = "rg_failed"
  /\ Len(tomes) = 2
  /\ Len(calls) = 2
  /\ calls[1].exc = NoExc
  /\ calls[2].exc # NoExc
  /\ out_dir[calls[1].out_name].state = "written"

(***************************************************************************)
(* Archives of the same chapter number                                     *)
(***************************************************************************)

\* what each discovered name parses to, in discovery order: the number N of
\* the name when a pattern of extractChapterNumber matches it
ParsedNames ==
  [i \in 1..Len(globbed) |->
     IF NoPatternMatches(globbed[i]) THEN [exc |-> ChapterError, val |-> 0]
     ELSE [exc |-> NoExc, val |-> DigitsValue(NumberPart(globbed[i]))]]

\* the places of the names that parse to chapter n, parsed being the outcome
\* of the parsing of every name
PlacesOfChapter(parsed, n) ==
  {i \in 1..Len(parsed) : parsed[i].exc = NoExc /\ parsed[i].val = n}

\* the chapter numbers the names parse to
ChapterNumbers(parsed) ==
  {parsed[i].val : i \in {j \in 1..Len(parsed) : parsed[j].exc = NoExc}}

\* the chapter numbers that several names parse to
DuplicateChapters(parsed) ==
  {n \in ChapterNumbers(parsed) : Cardinality(PlacesOfChapter(parsed, n)) > 1}

\* the archive discovered last among those of chapter n
LastOfChapter(parsed, n) == globbed[MaxOf(PlacesOfChapter(parsed, n))]

\* the run is in regroup_cbz
RegroupRun ==
  pc \in {"rg_start", "rg_chapters", "rg_config", "rg_tomes", "rg_process", "rg_done",
          "rg_failed"}

LastDiscoveredWins(parsed) ==
  /\ (RegroupRun /\ pc \notin {"rg_start", "rg_chapters"} /\ failed_extractions = <<>> /\ globbed # <<>>) =>
       /\ DOMAIN chapters = ChapterNumbers(parsed)
       /\ \A n \in DOMAIN chapters : chapters[n] = LastOfChapter(parsed, n)
  /\ (pc = "rg_failed" /\ tomes = <<>> /\ calls = <<>> /\ DuplicateChapters(parsed) # {}
      /\ exc.msg = "Failed to extract chapter numbers") =>
       failed_extractions # <<>>
  /\ RegroupRun =>
       \A k \in 1..Len(calls) :
         \A i \in 1..Len(calls[k].files) :
           \E n \in ChapterNumbers(parsed) : calls[k].files[i] = LastOfChapter(parsed, n)

\* C18: in a regroup run, once every discovered name has been parsed,
\* ChapterIndex maps each chapter number to the archive discovered last
\* among those that parse to it; several archives of one number raise no error (the chapter stage
\* fails only over names that do not parse); and every archive passed to a
\* repackage call is the last discovered of its number, so that an earlier
\* archive of a duplicated number is in no tome.
C18_LastDiscoveredChapterWins == LastDiscoveredWins(ParsedNames)

\* a run over 'S - 01.cbz', 'S - 2.cbz', 'S - 1.cbz' that ended well: chapter
\* 1 is 'S - 1.cbz', the tome of chapters 1 to 2 was made of 'S - 1.cbz' and
\* 'S - 2.cbz', and 'S - 01.cbz' is in no tome
C18_Witness ==
  /\ pc = "rg_done"
  /\ globbed = <<R_S_01, R_S_2, R_S_1>>
  /\ DuplicateChapters(ParsedNames) = {1}
  /\ chapters[1] = R_S_1
  /\ Len(calls) = 1
  /\ calls[1].files = <<R_S_1, R_S_2>>
  /\ calls[1].exc = NoExc

(***************************************************************************)
(* Rename applied to an archive the tool wrote                             *)
(***************************************************************************)

\* the namelist of an archive of the given entries
NamesOfEntries(entries) == [k \in 1..Len(entries) |-> entries[k].name]

\* rename applied to the archive of the given entries: one source, no cover
RenamedAgain(entries) ==
  process_cbz_images(<<ZipSource(NamesOfEntries(entries))>>, NoCover)

\* again, the outcome of renaming the archive of entries first, has as many
\* entries as it, entry k being made of entry k of first
SamePages(first, again) ==
  /\ again.exc = NoExc
  /\ Len(again.entries) = Len(first)
  /\ \A k \in 1..Len(again.entries) :
       again.entries[k].content = [src |-> 1, name |-> first[k].name]

\* the output of the call holds root-level files only
OutputIsFlat == \A k \in 1..Len(outFile.entries) : RootLevelFile(outFile.entries[k])

\* C19: rename applied to the output of a successful call, made with or
\* without a cover, succeeds and gives an archive of as many entries, in
\* the same page order.  The outputs looked at are those of root-level files
\* only, which is what the contract says every output is.
C19_RenameKeepsOwnOutput ==
  (pc = "done" /\ OutputIsFlat) =>
    SamePages(outFile.entries, RenamedAgain(outFile.entries))

\* the same, of every output
RenameKeepsEveryOutput ==
  pc = "done" => SamePages(outFile.entries, RenamedAgain(outFile.entries))

\* the same, of the outputs made without a cover in which every source entry
\* has its page
RenameKeepsOutputWithoutCover ==
  (pc = "done" /\ ~cover_path.given /\ Len(outFile.entries) = SourceImageCount
   /\ OutputIsFlat) =>
    SamePages(outFile.entries, RenamedAgain(outFile.entries))

====
